---- MODULE Spec2Model ----
(***************************************************************************)
(* The asynchronous document-processing pipeline of kmrl-backend:          *)
(* ProcessingQueueService (four Bull queues and their handlers), the       *)
(* parts of DocumentModel, FileProcessor and AIService the handlers call.  *)
(*                                                                         *)
(* A handler is an async function: between two awaited calls other         *)
(* handlers and the queue itself may run.  Each handler is therefore cut   *)
(* into phases at the awaited calls that have an effect outside the        *)
(* handler (file relocation, store update, enqueue); a phase includes the  *)
(* job.progress calls that precede its effect.  After its last phase a     *)
(* handler has returned or thrown, and the queue, in a step of its own,    *)
(* moves the job to completed, delayed or failed.                          *)
(*                                                                         *)
(* The functions of FileProcessor and AIService that depend on their       *)
(* arguments alone (validateFile on the file at its path,                  *)
(* fallbackClassification, extractEntities) are also called directly, on   *)
(* arguments of bounded domains, under SpecCalls.                          *)
(***************************************************************************)
EXTENDS Integers, FiniteSets, Sequences, TLC

(* ---------------------------- bounds ----------------------------------- *)

\* failures injected in one behaviour (a thrown I/O error, a job timeout, an
\* outage of the external service): Spec allows MaxFaults of them,
\* SpecDeep allows DeepFaults
MaxFaults == 1
DeepFaults == 2

\* the texts given to extractEntities in direct calls are made of at most
\* MaxTokens tokens
MaxTokens == 2

\* SpecRetention lets MaxFinished jobs of a kind finish
MaxFinished == 101

\* SpecWorkers starts from ExtraJobs more waiting jobs of a kind than the
\* kind's concurrency
ExtraJobs == 1

\* The handlers share no state between documents: each reads and writes
\* only the row, the file and the jobs of its own documentId.  One pipeline
\* pass is modelled.
Docs == {1}

(* ------------------------ program constants ---------------------------- *)

maxFileSize == 20971520

\* attempts option of queue.add, per queue
MaxAttemptsOffByOne(kind) ==
  CASE kind = "document"       -> 3
    [] kind = "ocr"            -> 3
    [] kind = "classification" -> 2
    [] kind = "indexing"       -> 3

MaxAttempts(kind) ==
  CASE kind = "document"       -> 3
    [] kind = "ocr"            -> 2
    [] kind = "classification" -> 2
    [] kind = "indexing"       -> 3

\* timeout option of queue.add: only the OCR and classification jobs carry one
HasTimeout(kind) == kind \in {"ocr", "classification"}

\* concurrency argument of queue.process
ConcurrencySameForAll(kind) ==
  CASE kind = "document"       -> 10
    [] kind = "ocr"            -> 10
    [] kind = "classification" -> 10
    [] kind = "indexing"       -> 10

Concurrency(kind) ==
  CASE kind = "document"       -> 10
    [] kind = "ocr"            -> 5
    [] kind = "classification" -> 5
    [] kind = "indexing"       -> 10

\* removeOnComplete / removeOnFail options of queue.add: how many completed
\* / failed jobs of the queue are kept; KeepAll when the option is absent
KeepAll == -1

removeOnComplete(kind) == IF kind = "document" THEN 100 ELSE KeepAll

removeOnFail(kind) == IF kind = "document" THEN 50 ELSE KeepAll

\* the stage whose handler enqueues jobs of this kind
PrevKind(kind) ==
  CASE kind = "document"       -> "none"
    [] kind = "ocr"            -> "document"
    [] kind = "classification" -> "ocr"
    [] kind = "indexing"       -> "classification"

(* --------------------------- input domains ----------------------------- *)

\* extensions of staged files: a raster image, a PDF, an upload-accepted
\* type OCR does not support
Exts == {"png", "pdf", "docx"}
ImageExts == {"jpg", "jpeg", "png", "bmp", "tiff"}

\* sizes of staged files
Sizes == {0, 10, maxFileSize + 1}

\* texts an OCR engine or delegate may read from a file
TextValues == {"", "invoice"}

\* elapsed times (Date.now() - startTime) a stage may measure, in ms; the
\* value plays no part in any decision of the pipeline
ProcTimes == {0}

Undef == "undefined"
NoConf == -1
NoTime == -1

\* name of the staged file of an upload with extension ext
FileNameOf(ext) == IF ext = "pdf" THEN "invoice_march.pdf" ELSE "scan." \o ext

(* ------------------------------ strings -------------------------------- *)

UpperAlphabet == "ABCDEFGHIJKLMNOPQRSTUVWXYZ"
LowerAlphabet == "abcdefghijklmnopqrstuvwxyz"

CharAt(s, i) == SubSeq(s, i, i)
CharsOf(s) == {CharAt(s, i) : i \in 1..Len(s)}

\* String.prototype.toLowerCase
RECURSIVE toLowerCase(_)
toLowerCase(s) ==
  IF s = "" THEN ""
  ELSE LET c == CharAt(s, 1)
           lc == IF c \in CharsOf(UpperAlphabet)
                   THEN CharAt(LowerAlphabet,
                               CHOOSE i \in 1..Len(UpperAlphabet) : CharAt(UpperAlphabet, i) = c)
                   ELSE c
       IN lc \o toLowerCase(SubSeq(s, 2, Len(s)))

\* String.prototype.includes
Includes(s, word) ==
  \E i \in 1..(Len(s) - Len(word) + 1) : SubSeq(s, i, i + Len(word) - 1) = word

\* path.basename: what follows the last '/'
basename(filePath) ==
  LET slashes == {i \in 1..Len(filePath) : CharAt(filePath, i) = "/"}
      last == CHOOSE i \in slashes : \A k \in slashes : k <= i
  IN IF slashes = {} THEN filePath ELSE SubSeq(filePath, last + 1, Len(filePath))

\* path.extname: from the last '.' of the basename to its end, '' when
\* there is none or the name starts with its only '.'
extname(filePath) ==
  LET b == basename(filePath)
      dots == {i \in 1..Len(b) : CharAt(b, i) = "."}
      last == CHOOSE i \in dots : \A k \in dots : k <= i
  IN IF dots = {} \/ last = 1 THEN "" ELSE SubSeq(b, last, Len(b))

(* ------------------------------ state ---------------------------------- *)

VARIABLES
  fs,      \* fs[d]: the staged file of document d: where it is, size, name,
           \* extension, and the text an OCR engine reads from it
  docs,    \* docs[d]: the row of document d in the Document Status Store
  jobs,    \* the jobs of the four Bull queues
  runs,    \* the handler invocations in progress
  pythonUp,\* whether the external OCR / classification service answers
  faults,  \* failures that may still be injected (thrown I/O errors, timeouts, outages)
  call,    \* a direct call of a function of the service, of FileProcessor or
           \* of AIService: its arguments, how far it has got and its result
  queueState \* queueState[kind]: whether the queue of the kind is open, closing
             \* (taking no more jobs, waiting for its handlers) or closed

vars == <<fs, docs, jobs, runs, pythonUp, faults, call, queueState>>

NoFile == [loc |-> "none", size |-> 0, name |-> "none", ext |-> "none", text |-> ""]

NoCall == [fn |-> "none", text |-> "", at |-> 0, done |-> FALSE, out |-> <<>>]

\* the keys of the queues map
QueueNames == {"document", "ocr", "classification", "indexing"}

\* the queues from the last stage to the first
QueueOrderReversed == <<"indexing", "classification", "ocr", "document">>

\* the queues in the order of the queues map
QueueOrder == <<"document", "ocr", "classification", "indexing">>

AllOpen == [kind \in QueueNames |-> "open"]

\* the workers of a queue take jobs (and its timers promote delayed jobs)
\* until the queue is being closed
TakesJobsAlways(kind) == TRUE

TakesJobs(kind) == queueState[kind] = "open"

\* the queue's connection to the job store is there until the queue is
\* closed: job.progress and queue.add throw on a closed queue
Connected(kind) == queueState[kind] # "closed"

NoRow == [status |-> "none", ocr_text |-> Undef, ai_classification |-> Undef,
          confidence_score |-> NoConf, processing_time |-> NoTime, file_path |-> "none"]

(* --------------------------- FileProcessor ----------------------------- *)

isValidFileSizeStrict(fileSize) == fileSize < maxFileSize

isValidFileSize(fileSize) == fileSize <= maxFileSize

\* validateFile(filePath) for the file of document d
validateFileMinSize(d, filePath) ==
  IF fs[d].loc # filePath \/ filePath = "none"
    THEN [valid |-> FALSE, error |-> "File does not exist"]
  ELSE IF ~isValidFileSize(fs[d].size)
    THEN [valid |-> FALSE, error |-> "File size exceeds maximum"]
  ELSE IF fs[d].size <= 10
    THEN [valid |-> FALSE, error |-> "File is empty"]
  ELSE [valid |-> TRUE, error |-> "none"]

validateFile(d, filePath) ==
  IF fs[d].loc # filePath \/ filePath = "none"
    THEN [valid |-> FALSE, error |-> "File does not exist"]
  ELSE IF ~isValidFileSize(fs[d].size)
    THEN [valid |-> FALSE, error |-> "File size exceeds maximum"]
  ELSE IF fs[d].size = 0
    THEN [valid |-> FALSE, error |-> "File is empty"]
  ELSE [valid |-> TRUE, error |-> "none"]

(* ----------------------------- AIService ------------------------------- *)

\* performOCR that reads every file that is not a PDF as an image
performOCRAnyType(d, filePath) ==
  IF fs[d].loc # filePath
    THEN [ok |-> FALSE, err |-> "notfound", text |-> ""]
  ELSE IF fs[d].ext = "pdf"
    THEN [ok |-> TRUE, err |-> "none", text |-> IF pythonUp THEN fs[d].text ELSE ""]
  ELSE [ok |-> TRUE, err |-> "none", text |-> fs[d].text]

\* performOCR for the file of document d at filePath: the text, or the
\* error thrown
performOCR(d, filePath) ==
  IF fs[d].loc # filePath
    THEN [ok |-> FALSE, err |-> "notfound", text |-> ""]
  ELSE IF fs[d].ext \in ImageExts
    THEN [ok |-> TRUE, err |-> "none", text |-> fs[d].text]
  ELSE IF fs[d].ext = "pdf"
    \* the delegate answers with the text, or fails and '' is returned
    THEN [ok |-> TRUE, err |-> "none", text |-> IF pythonUp THEN fs[d].text ELSE ""]
  ELSE [ok |-> FALSE, err |-> "unsupported", text |-> ""]

\* path.basename(filePath).toLowerCase() for the file of document d
FileWord(d) == toLowerCase(basename(fs[d].name))

fallbackClassificationNoDefault(ocrText, d) ==
  LET filename == FileWord(d)
      extension == toLowerCase(SubSeq(extname(fs[d].name), 2, Len(extname(fs[d].name))))
      text == toLowerCase(ocrText)
  IN IF extension = "pdf" \/ Includes(filename, "report")
       THEN [document_type |-> "report", confidence |-> 60]
     ELSE IF Includes(filename, "invoice") \/ Includes(text, "invoice") \/ Includes(text, "bill")
       THEN [document_type |-> "invoice", confidence |-> 70]
     ELSE IF Includes(filename, "contract") \/ Includes(text, "agreement")
               \/ Includes(text, "contract")
       THEN [document_type |-> "contract", confidence |-> 70]
     ELSE IF Includes(filename, "drawing") \/ extension = "dwg" \/ extension = "dxf"
       THEN [document_type |-> "technical_drawing", confidence |-> 80]
     ELSE IF extension \in {"jpg", "jpeg", "png", "bmp", "tiff"}
       THEN [document_type |-> "image", confidence |-> 60]
     ELSE IF extension \in {"doc", "docx"}
       THEN [document_type |-> "document", confidence |-> 60]
     ELSE IF extension = "xlsx"
       THEN [document_type |-> "spreadsheet", confidence |-> 70]
     ELSE [document_type |-> Undef, confidence |-> NoConf]

fallbackClassification(ocrText, d) ==
  LET filename == FileWord(d)
      extension == toLowerCase(SubSeq(extname(fs[d].name), 2, Len(extname(fs[d].name))))
      text == toLowerCase(ocrText)
  IN IF extension = "pdf" \/ Includes(filename, "report")
       THEN [document_type |-> "report", confidence |-> 60]
     ELSE IF Includes(filename, "invoice") \/ Includes(text, "invoice") \/ Includes(text, "bill")
       THEN [document_type |-> "invoice", confidence |-> 70]
     ELSE IF Includes(filename, "contract") \/ Includes(text, "agreement")
               \/ Includes(text, "contract")
       THEN [document_type |-> "contract", confidence |-> 70]
     ELSE IF Includes(filename, "drawing") \/ extension = "dwg" \/ extension = "dxf"
       THEN [document_type |-> "technical_drawing", confidence |-> 80]
     ELSE IF extension \in {"jpg", "jpeg", "png", "bmp", "tiff"}
       THEN [document_type |-> "image", confidence |-> 60]
     ELSE IF extension \in {"doc", "docx"}
       THEN [document_type |-> "document", confidence |-> 60]
     ELSE IF extension = "xlsx"
       THEN [document_type |-> "spreadsheet", confidence |-> 70]
     ELSE [document_type |-> "unknown", confidence |-> 50]

\* classifyViaPythonService: the answer of the external service
classifyViaPythonService(ocrText, d) == [document_type |-> "memo", confidence |-> 90]

\* classifyDocument: the delegate's answer, or the fallback when it fails
classifyDocumentNoFallback(ocrText, d) == classifyViaPythonService(ocrText, d)

classifyDocument(ocrText, d) ==
  IF pythonUp THEN classifyViaPythonService(ocrText, d)
              ELSE fallbackClassification(ocrText, d)

(* ----------------------- regular expressions --------------------------- *)

\* A pattern is a sequence of items; an item is a character class with a
\* greedy quantifier {min,max}.
Digit == CharsOf("0123456789")
Upper == CharsOf(UpperAlphabet)
Space == {" ", "\t", "\n", "\r"}
Unbounded == 1000000

Lit(c) == [cls |-> {c}, min |-> 1, max |-> 1]
Rep(cls, min, max) == [cls |-> cls, min |-> min, max |-> max]

\* the number of characters of cls that follow one another from position i, at most max
RECURSIVE RunLength(_, _, _, _)
RunLength(cls, s, i, max) ==
  IF max = 0 \/ i > Len(s) \/ CharAt(s, i) \notin cls THEN 0
  ELSE 1 + RunLength(cls, s, i + 1, max - 1)

\* the backtracking matcher: the position after the match of items k.. of
\* pat that starts at i, 0 when there is none; an item first takes as many
\* characters as it can and gives them back one by one
RECURSIVE MatchItems(_, _, _, _)
RECURSIVE TryCount(_, _, _, _, _)
MatchItems(pat, k, s, i) ==
  IF k > Len(pat) THEN i
  ELSE TryCount(pat, k, s, i, RunLength(pat[k].cls, s, i, pat[k].max))
TryCount(pat, k, s, i, c) ==
  IF c < pat[k].min THEN 0
  ELSE LET e == MatchItems(pat, k + 1, s, i + c)
       IN IF e # 0 THEN e ELSE TryCount(pat, k, s, i, c - 1)

\* s.match(pat) for a pattern with the g flag, scanning from position i:
\* the leftmost matches, none overlapping another (null is the empty list)
RECURSIVE MatchAll(_, _, _)
MatchAll(pat, s, i) ==
  IF i > Len(s) THEN <<>>
  ELSE LET e == MatchItems(pat, 1, s, i)
       IN IF e = 0 THEN MatchAll(pat, s, i + 1)
          ELSE <<SubSeq(s, i, e - 1)>> \o MatchAll(pat, s, IF e = i THEN i + 1 ELSE e)

(* ------------------------ AIService.extractEntities -------------------- *)

\* [\d,]+\.?\d*
Number == <<Rep(Digit \cup {","}, 1, Unbounded), Rep({"."}, 0, 1), Rep(Digit, 0, Unbounded)>>

datePatterns ==
  << <<Rep(Digit, 1, 2), Lit("/"), Rep(Digit, 1, 2), Lit("/"), Rep(Digit, 4, 4)>>,
     <<Rep(Digit, 4, 4), Lit("-"), Rep(Digit, 1, 2), Lit("-"), Rep(Digit, 1, 2)>>,
     <<Rep(Digit, 1, 2), Lit("-"), Rep(Digit, 1, 2), Lit("-"), Rep(Digit, 4, 4)>> >>

amountPatterns ==
  << <<Lit("$")>> \o Number,
     <<Lit("U"), Lit("S"), Lit("D"), Rep(Space, 0, Unbounded)>> \o Number,
     <<Lit("₹")>> \o Number,
     <<Lit("I"), Lit("N"), Lit("R"), Rep(Space, 0, Unbounded)>> \o Number >>

projectCodePatternsNoProj ==
  << <<Rep(Upper, 2, 4), Lit("-"), Rep(Digit, 3, 4)>>,
     <<Rep(Upper, 2, 4), Lit("-"), Rep(Digit, 4, 4), Lit("-"), Rep(Digit, 3, 3)>>,
     <<Lit("K"), Lit("M"), Lit("-"), Rep(Digit, 1, Unbounded), Lit("-"),
       Rep(Digit, 1, Unbounded)>> >>

projectCodePatterns ==
  << <<Rep(Upper, 2, 4), Lit("-"), Rep(Digit, 3, 4)>>,
     <<Rep(Upper, 2, 4), Lit("-"), Rep(Digit, 4, 4), Lit("-"), Rep(Digit, 3, 3)>>,
     <<Lit("P"), Lit("R"), Lit("O"), Lit("J"), Lit("-"), Rep(Digit, 1, Unbounded)>>,
     <<Lit("K"), Lit("M"), Lit("-"), Rep(Digit, 1, Unbounded), Lit("-"),
       Rep(Digit, 1, Unbounded)>> >>

\* patterns.forEach(pattern => { matches = ocrText.match(pattern);
\*                              if (matches) list.push(...matches) })
\* from pattern k on, list being what was pushed before
RECURSIVE forEachPush(_, _, _, _)
forEachPush(patterns, k, ocrText, list) ==
  IF k > Len(patterns) THEN list
  ELSE forEachPush(patterns, k + 1, ocrText, list \o MatchAll(patterns[k], ocrText, 1))

extractEntitiesDistinct(ocrText) ==
  LET RECURSIVE distinct(_, _)
      distinct(list, seen) ==
        IF list = <<>> THEN <<>>
        ELSE IF Head(list) \in seen THEN distinct(Tail(list), seen)
        ELSE <<Head(list)>> \o distinct(Tail(list), seen \cup {Head(list)})
  IN [dates         |-> distinct(forEachPush(datePatterns, 1, ocrText, <<>>), {}),
      amounts       |-> distinct(forEachPush(amountPatterns, 1, ocrText, <<>>), {}),
      project_codes |-> distinct(forEachPush(projectCodePatterns, 1, ocrText, <<>>), {})]

extractEntities(ocrText) ==
  [dates         |-> forEachPush(datePatterns, 1, ocrText, <<>>),
   amounts       |-> forEachPush(amountPatterns, 1, ocrText, <<>>),
   project_codes |-> forEachPush(projectCodePatterns, 1, ocrText, <<>>)]

(* --------------------------- DocumentModel ----------------------------- *)

\* updateStatus that tests every supplied field for truthiness
updateStatusTruthy(row, status, data) ==
  [row EXCEPT
     !.status = status,
     !.ai_classification =
        IF data.ai_classification # Undef /\ data.ai_classification # ""
          THEN data.ai_classification ELSE @,
     !.confidence_score =
        IF data.confidence_score # NoConf /\ data.confidence_score # 0
          THEN data.confidence_score ELSE @,
     !.processing_time =
        IF data.processing_time # NoTime /\ data.processing_time # 0
          THEN data.processing_time ELSE @,
     !.ocr_text =
        IF data.ocr_text # Undef /\ data.ocr_text # ""
          THEN data.ocr_text ELSE @]


\* updateStatus(id, status, additionalData) applied to a row; a field of
\* additionalData that is absent is Undef / NoConf / NoTime.  The
\* timestamps updated_at and processed_at are not part of the state.
updateStatus(row, status, data) ==
  [row EXCEPT
     !.status = status,
     !.ai_classification =
        IF data.ai_classification # Undef /\ data.ai_classification # ""
          THEN data.ai_classification ELSE @,
     !.confidence_score =
        IF data.confidence_score # NoConf THEN data.confidence_score ELSE @,
     !.processing_time =
        IF data.processing_time # NoTime THEN data.processing_time ELSE @,
     !.ocr_text =
        IF data.ocr_text # Undef /\ data.ocr_text # ""
          THEN data.ocr_text ELSE @]

NoData == [ai_classification |-> Undef, confidence_score |-> NoConf,
           processing_time |-> NoTime, ocr_text |-> Undef]

(* ------------------------------- jobs ---------------------------------- *)

JobsOf(js, d, kind) == {j \in js : j.doc = d /\ j.kind = kind}

\* queue.add(name, data, opts): a new job in state waiting
AddJob(js, d, kind, filePath, ocrText) ==
  js \cup {[doc |-> d, kind |-> kind, n |-> Cardinality(JobsOf(js, d, kind)) + 1,
            filePath |-> filePath, ocrText |-> ocrText,
            state |-> "waiting", attemptsMade |-> 0, starts |-> 0,
            progress |-> 0, valErr |-> FALSE]}

\* addOCRJob with the documentId of the job's payload
addOCRJobForFirst(js, d, filePath) == AddJob(js, 1, "ocr", filePath, Undef)

addOCRJob(js, d, filePath) == AddJob(js, d, "ocr", filePath, Undef)

addClassificationJob(js, d, filePath, ocrText) ==
  AddJob(js, d, "classification", filePath, ocrText)

addIndexingJob(js, d, filePath) == AddJob(js, d, "indexing", filePath, Undef)

JobOf(r) == CHOOSE j \in jobs : j.doc = r.doc /\ j.kind = r.kind /\ j.n = r.n

ActiveCount(kind) == Cardinality({j \in jobs : j.kind = kind /\ j.state = "active"})

\* a queue that counts the failed attempt and leaves the job active
FailedAttemptLeftActive(j) == [j EXCEPT !.attemptsMade = @ + 1]

\* the queue's handling of a failed attempt: retry after the backoff delay
\* while attempts remain, else the job is failed
FailedAttempt(j) ==
  [j EXCEPT !.attemptsMade = @ + 1,
            !.state = IF j.attemptsMade + 1 < MaxAttempts(j.kind)
                        THEN "delayed" ELSE "failed"]

\* getJobStatus(queueName, jobId): the job's fields, or the error thrown.
\* processedOn is set once an attempt has started, finishedOn once the job
\* is completed or failed, failedReason once an attempt has failed.
getJobStatus(queueName, jobId) ==
  LET found == {j \in jobs : j.kind = queueName /\ j.n = jobId}
      job == CHOOSE j \in found : TRUE
  IN IF queueName \notin QueueNames
       THEN [ok |-> FALSE, error |-> "Queue not found"]
     ELSE IF found = {}
       THEN [ok |-> FALSE, error |-> "Job not found"]
     ELSE [ok |-> TRUE, error |-> "none", id |-> job.n, progress |-> job.progress,
           data |-> [documentId |-> job.doc, filePath |-> job.filePath,
                     ocrText |-> job.ocrText],
           processedOn |-> job.starts > 0,
           finishedOn |-> job.state \in {"completed", "failed"},
           failedReason |-> job.attemptsMade > 0]

FirstPc(kind) ==
  CASE kind = "document"       -> "validate"
    [] kind = "ocr"            -> "ocr"
    [] kind = "classification" -> "classify"
    [] kind = "indexing"       -> "index"

(* ------------------------------- Init ---------------------------------- *)

Init ==
  /\ fs = [d \in Docs |-> NoFile]
  /\ docs = [d \in Docs |-> NoRow]
  /\ jobs = {}
  /\ runs = {}
  /\ pythonUp = TRUE
  /\ faults = MaxFaults
  /\ call = NoCall
  /\ queueState = AllOpen

(* ------------------------------ actions -------------------------------- *)

\* an injected failure of an awaited call, within the budget
Fault(ok) ==
  /\ IF ok THEN faults' = faults ELSE faults > 0 /\ faults' = faults - 1
  /\ pythonUp' = pythonUp
  /\ call' = call
  /\ queueState' = queueState

\* a handler whose attempt was already failed by its timeout has no effect
\* left once it reaches its return or throw
SetRun(r, r2) ==
  runs' = (runs \ {r}) \cup (IF ~r2.live /\ r2.pc \in {"return", "throw"} THEN {} ELSE {r2})
SetJob(j, j2) == jobs' = (jobs \ {j}) \cup {j2}

\* the upload ingress: a staged file, a pending row, an intake job
Upload(d, ext, size, text, exists) ==
  /\ docs[d].status = "none"
  /\ Connected("document")
  /\ fs' = [fs EXCEPT ![d] = IF exists THEN [loc |-> "temp", size |-> size,
                                              name |-> FileNameOf(ext), ext |-> ext,
                                              text |-> text]
                                       ELSE [NoFile EXCEPT !.name = FileNameOf(ext),
                                                           !.ext = ext]]
  /\ docs' = [docs EXCEPT ![d] = [NoRow EXCEPT !.status = "pending", !.file_path = "temp"]]
  /\ jobs' = AddJob(jobs, d, "document", "temp", Undef)
  /\ UNCHANGED <<runs, pythonUp, faults, call, queueState>>

\* a worker of the job's queue takes a waiting job and invokes the handler
StartJobAnyState(j) ==
  /\ j.state \in {"waiting", "completed", "failed"}
  /\ TakesJobs(j.kind)
  /\ ActiveCount(j.kind) < Concurrency(j.kind)
  /\ SetJob(j, [j EXCEPT !.state = "active", !.starts = @ + 1])
  /\ runs' = runs \cup {[doc |-> j.doc, kind |-> j.kind, n |-> j.n,
                         att |-> j.starts + 1, pc |-> FirstPc(j.kind),
                         live |-> TRUE, ocrText |-> Undef, helpers |-> TRUE,
                         res |-> [document_type |-> Undef, confidence |-> NoConf]]}
  /\ UNCHANGED <<fs, docs, pythonUp, faults, call, queueState>>

StartJob(j) ==
  /\ j.state = "waiting"
  /\ TakesJobs(j.kind)
  /\ ActiveCount(j.kind) < Concurrency(j.kind)
  /\ SetJob(j, [j EXCEPT !.state = "active", !.starts = @ + 1])
  /\ runs' = runs \cup {[doc |-> j.doc, kind |-> j.kind, n |-> j.n,
                         att |-> j.starts + 1, pc |-> FirstPc(j.kind),
                         live |-> TRUE, ocrText |-> Undef, helpers |-> TRUE,
                         res |-> [document_type |-> Undef, confidence |-> NoConf]]}
  /\ UNCHANGED <<fs, docs, pythonUp, faults, call, queueState>>

\* the backoff delay of a retried job elapses
Promote(j) ==
  /\ j.state = "delayed"
  /\ TakesJobs(j.kind)
  /\ SetJob(j, [j EXCEPT !.state = "waiting"])
  /\ UNCHANGED <<fs, docs, runs, pythonUp, faults, call, queueState>>

(* ------------------------ handler plumbing ----------------------------- *)

\* job.progress(p): written on the job whichever attempt calls it
WithProgress(js, r, p) ==
  (js \ {JobOf(r)}) \cup {[JobOf(r) EXCEPT !.progress = p]}

\* as WithProgress, and the job remembers that an attempt hit a validation error
WithValErr(js, r, p) ==
  (js \ {JobOf(r)}) \cup {[JobOf(r) EXCEPT !.progress = p, !.valErr = TRUE]}

(* ------------------------- processDocumentJob -------------------------- *)

\* progress(10); validateFile; progress(25); extractMetadata (returns {}
\* when it fails); progress(50); generateThumbnail (failure swallowed);
\* progress(75).  ok: no job.progress call throws; helpersOk: extractMetadata
\* and generateThumbnail both succeed
processDocumentJob_validateStrict(r, ok, helpersOk) ==
  /\ r.kind = "document" /\ r.pc = "validate"
  /\ Fault(ok)
  /\ IF ~ok \/ ~helpersOk \/ ~Connected("document")
       THEN /\ SetRun(r, [r EXCEPT !.pc = "catch"])
            /\ jobs' = jobs
     ELSE IF ~validateFile(r.doc, JobOf(r).filePath).valid
       THEN /\ SetRun(r, [r EXCEPT !.pc = "catch"])
            /\ jobs' = WithValErr(jobs, r, 10)
     ELSE /\ SetRun(r, [r EXCEPT !.pc = "move", !.helpers = helpersOk])
          /\ jobs' = WithProgress(jobs, r, 75)
  /\ UNCHANGED <<fs, docs>>

processDocumentJob_validate(r, ok, helpersOk) ==
  /\ r.kind = "document" /\ r.pc = "validate"
  /\ Fault(ok)
  /\ IF ~ok \/ ~Connected("document")
       THEN /\ SetRun(r, [r EXCEPT !.pc = "catch"])
            /\ jobs' = jobs
     ELSE IF ~validateFile(r.doc, JobOf(r).filePath).valid
       THEN /\ SetRun(r, [r EXCEPT !.pc = "catch"])
            /\ jobs' = WithValErr(jobs, r, 10)
     ELSE /\ SetRun(r, [r EXCEPT !.pc = "move", !.helpers = helpersOk])
          /\ jobs' = WithProgress(jobs, r, 75)
  /\ UNCHANGED <<fs, docs>>

\* moveToFinalDestination(filePath, finalPath)
processDocumentJob_move(r, ok) ==
  /\ r.kind = "document" /\ r.pc = "move"
  /\ Fault(ok)
  /\ IF ok /\ fs[r.doc].loc = JobOf(r).filePath
       THEN /\ fs' = [fs EXCEPT ![r.doc].loc = "final"]
            /\ SetRun(r, [r EXCEPT !.pc = "update"])
       ELSE /\ fs' = fs
            /\ SetRun(r, [r EXCEPT !.pc = "catch"])
  /\ UNCHANGED <<docs, jobs>>

\* DocumentModel.updateStatus(documentId, 'completed', {processing_time})
processDocumentJob_update(r, ok, processingTime) ==
  /\ r.kind = "document" /\ r.pc = "update"
  /\ Fault(ok)
  /\ IF ok
       THEN /\ docs' = [docs EXCEPT ![r.doc] =
                          updateStatus(@, "completed",
                            [NoData EXCEPT !.processing_time = processingTime])]
            /\ SetRun(r, [r EXCEPT !.pc = "enqueue"])
       ELSE /\ docs' = docs
            /\ SetRun(r, [r EXCEPT !.pc = "catch"])
  /\ UNCHANGED <<fs, jobs>>

\* an intake handler that passes on the path of its own payload
processDocumentJob_enqueueStagingPath(r, ok) ==
  /\ r.kind = "document" /\ r.pc = "enqueue"
  /\ Fault(ok)
  /\ IF ok /\ Connected("document") /\ Connected("ocr")
       THEN /\ jobs' = addOCRJob(WithProgress(jobs, r, 100), r.doc, JobOf(r).filePath)
            /\ SetRun(r, [r EXCEPT !.pc = "return"])
       ELSE /\ jobs' = jobs
            /\ SetRun(r, [r EXCEPT !.pc = "catch"])
  /\ UNCHANGED <<fs, docs>>

\* progress(100); addOCRJob({documentId, filePath: finalPath})
processDocumentJob_enqueue(r, ok) ==
  /\ r.kind = "document" /\ r.pc = "enqueue"
  /\ Fault(ok)
  /\ IF ok /\ Connected("document") /\ Connected("ocr")
       THEN /\ jobs' = addOCRJob(WithProgress(jobs, r, 100), r.doc, "final")
            /\ SetRun(r, [r EXCEPT !.pc = "return"])
       ELSE /\ jobs' = jobs
            /\ SetRun(r, [r EXCEPT !.pc = "catch"])
  /\ UNCHANGED <<fs, docs>>

\* a catch that rethrows and leaves the status as it is
processDocumentJob_catchRethrowOnly(r, ok) ==
  /\ r.kind = "document" /\ r.pc = "catch"
  /\ Fault(ok)
  /\ docs' = docs
  /\ SetRun(r, [r EXCEPT !.pc = "throw"])
  /\ UNCHANGED <<fs, jobs>>

\* catch: DocumentModel.updateStatus(documentId, 'failed'); throw error
\* (a failing update throws as well)
processDocumentJob_catch(r, ok) ==
  /\ r.kind = "document" /\ r.pc = "catch"
  /\ Fault(ok)
  /\ docs' = IF ok THEN [docs EXCEPT ![r.doc] = updateStatus(@, "failed", NoData)]
                   ELSE docs
  /\ SetRun(r, [r EXCEPT !.pc = "throw"])
  /\ UNCHANGED <<fs, jobs>>

(* ---------------------------- processOCRJob ---------------------------- *)

\* progress(10); AIService.performOCR(filePath); progress(80)
processOCRJob_ocr(r, ok) ==
  /\ r.kind = "ocr" /\ r.pc = "ocr"
  /\ Fault(ok)
  /\ LET out == performOCR(r.doc, JobOf(r).filePath) IN
     IF ~ok \/ ~Connected("ocr")
       THEN /\ SetRun(r, [r EXCEPT !.pc = "throw"])
            /\ jobs' = jobs
     ELSE IF ~out.ok
       THEN /\ SetRun(r, [r EXCEPT !.pc = "throw"])
            /\ jobs' = IF out.err = "unsupported" THEN WithValErr(jobs, r, 10)
                                                  ELSE WithProgress(jobs, r, 10)
     ELSE /\ SetRun(r, [r EXCEPT !.pc = "update", !.ocrText = out.text])
          /\ jobs' = WithProgress(jobs, r, 80)
  /\ UNCHANGED <<fs, docs>>

\* DocumentModel.updateStatus(documentId, 'processing', {ocr_text, processing_time})
processOCRJob_update(r, ok, processingTime) ==
  /\ r.kind = "ocr" /\ r.pc = "update"
  /\ Fault(ok)
  /\ IF ok
       THEN /\ docs' = [docs EXCEPT ![r.doc] =
                          updateStatus(@, "processing",
                            [NoData EXCEPT !.ocr_text = r.ocrText,
                                           !.processing_time = processingTime])]
            /\ SetRun(r, [r EXCEPT !.pc = "enqueue"])
       ELSE /\ docs' = docs
            /\ SetRun(r, [r EXCEPT !.pc = "throw"])
  /\ UNCHANGED <<fs, jobs>>

\* progress(100); addClassificationJob({documentId, filePath, metadata: {ocrText}})
processOCRJob_enqueue(r, ok) ==
  /\ r.kind = "ocr" /\ r.pc = "enqueue"
  /\ Fault(ok)
  /\ IF ok /\ Connected("ocr") /\ Connected("classification")
       THEN /\ jobs' = addClassificationJob(WithProgress(jobs, r, 100), r.doc,
                                            JobOf(r).filePath, r.ocrText)
            /\ SetRun(r, [r EXCEPT !.pc = "return"])
       ELSE /\ jobs' = jobs
            /\ SetRun(r, [r EXCEPT !.pc = "throw"])
  /\ UNCHANGED <<fs, docs>>

(* ----------------------- processClassificationJob ---------------------- *)

\* progress(10); ocrText = metadata?.ocrText, or when that is falsy
\* (await findById(documentId))?.ocr_text || ''; progress(30);
\* AIService.classifyDocument(ocrText, filePath); progress(80)
ClassificationTextPayloadOnly(r) ==
  LET meta == JobOf(r).ocrText
  IN IF meta # Undef /\ meta # "" THEN meta ELSE ""

ClassificationText(r) ==
  LET meta == JobOf(r).ocrText
      stored == docs[r.doc].ocr_text
  IN IF meta # Undef /\ meta # "" THEN meta
     ELSE IF stored # Undef THEN stored ELSE ""

processClassificationJob_classify(r, ok) ==
  /\ r.kind = "classification" /\ r.pc = "classify"
  /\ Fault(ok)
  /\ IF ok /\ Connected("classification")
       THEN /\ SetRun(r, [r EXCEPT !.pc = "update", !.ocrText = ClassificationText(r),
                                   !.res = classifyDocument(ClassificationText(r), r.doc)])
            /\ jobs' = WithProgress(jobs, r, 80)
       ELSE /\ SetRun(r, [r EXCEPT !.pc = "throw"])
            /\ jobs' = jobs
  /\ UNCHANGED <<fs, docs>>

\* DocumentModel.updateStatus(documentId, 'completed',
\*   {ai_classification, confidence_score, processing_time})
processClassificationJob_update(r, ok, processingTime) ==
  /\ r.kind = "classification" /\ r.pc = "update"
  /\ Fault(ok)
  /\ IF ok
       THEN /\ docs' = [docs EXCEPT ![r.doc] =
                          updateStatus(@, "completed",
                            [NoData EXCEPT !.ai_classification = r.res.document_type,
                                           !.confidence_score = r.res.confidence,
                                           !.processing_time = processingTime])]
            /\ SetRun(r, [r EXCEPT !.pc = "enqueue"])
       ELSE /\ docs' = docs
            /\ SetRun(r, [r EXCEPT !.pc = "throw"])
  /\ UNCHANGED <<fs, jobs>>

\* progress(90); addIndexingJob({documentId, filePath})
processClassificationJob_enqueue(r, ok) ==
  /\ r.kind = "classification" /\ r.pc = "enqueue"
  /\ Fault(ok)
  /\ IF ok /\ Connected("classification") /\ Connected("indexing")
       THEN /\ jobs' = addIndexingJob(WithProgress(jobs, r, 90), r.doc, JobOf(r).filePath)
            /\ SetRun(r, [r EXCEPT !.pc = "progress100"])
       ELSE /\ jobs' = jobs
            /\ SetRun(r, [r EXCEPT !.pc = "throw"])
  /\ UNCHANGED <<fs, docs>>

\* progress(100), awaited after the indexing job was enqueued
processClassificationJob_progress100(r, ok) ==
  /\ r.kind = "classification" /\ r.pc = "progress100"
  /\ Fault(ok)
  /\ IF ok /\ Connected("classification")
       THEN /\ jobs' = WithProgress(jobs, r, 100)
            /\ SetRun(r, [r EXCEPT !.pc = "return"])
       ELSE /\ jobs' = jobs
            /\ SetRun(r, [r EXCEPT !.pc = "throw"])
  /\ UNCHANGED <<fs, docs>>

(* -------------------------- processIndexingJob ------------------------- *)

\* an indexing handler whose catch writes status 'failed' as the intake
\* handler's does
processIndexingJob_indexMarksFailed(r, ok) ==
  /\ r.kind = "indexing" /\ r.pc = "index"
  /\ Fault(ok)
  /\ IF ok /\ Connected("indexing") /\ docs[r.doc].status # "none"
       THEN /\ jobs' = WithProgress(jobs, r, 100)
            /\ docs' = docs
            /\ SetRun(r, [r EXCEPT !.pc = "return"])
       ELSE /\ jobs' = jobs
            /\ docs' = [docs EXCEPT ![r.doc] = updateStatus(@, "failed", NoData)]
            /\ SetRun(r, [r EXCEPT !.pc = "throw"])
  /\ UNCHANGED fs

\* progress(25); findById(documentId), 'Document not found' when absent;
\* progress(50); progress(100)
processIndexingJob_index(r, ok) ==
  /\ r.kind = "indexing" /\ r.pc = "index"
  /\ Fault(ok)
  /\ IF ok /\ Connected("indexing") /\ docs[r.doc].status # "none"
       THEN /\ jobs' = WithProgress(jobs, r, 100)
            /\ SetRun(r, [r EXCEPT !.pc = "return"])
       ELSE /\ jobs' = jobs
            /\ SetRun(r, [r EXCEPT !.pc = "throw"])
  /\ UNCHANGED <<fs, docs>>

(* ------------------- the queue's end of an attempt --------------------- *)

\* the handler has returned: the queue moves the job to completed
Return(r) ==
  /\ r.pc = "return" /\ r.live
  /\ runs' = runs \ {r}
  /\ SetJob(JobOf(r), [JobOf(r) EXCEPT !.state = "completed"])
  /\ UNCHANGED <<fs, docs, pythonUp, faults, call, queueState>>

\* the handler has thrown: the queue fails the attempt
Throw(r) ==
  /\ r.pc = "throw" /\ r.live
  /\ runs' = runs \ {r}
  /\ SetJob(JobOf(r), FailedAttempt(JobOf(r)))
  /\ UNCHANGED <<fs, docs, pythonUp, faults, call, queueState>>

\* the job's timeout expires while the handler is awaiting a call: the
\* attempt is failed with a timeout error; the handler is not cancelled
Timeout(r) ==
  /\ r.live
  /\ r.pc \notin {"return", "throw"}
  /\ HasTimeout(r.kind)
  /\ faults > 0
  /\ faults' = faults - 1
  /\ SetRun(r, [r EXCEPT !.live = FALSE])
  /\ SetJob(JobOf(r), FailedAttempt(JobOf(r)))
  /\ UNCHANGED <<fs, docs, pythonUp, call, queueState>>

\* the external service goes down or comes back
PythonServiceChange ==
  /\ faults > 0
  /\ faults' = faults - 1
  /\ pythonUp' = ~pythonUp
  /\ UNCHANGED <<fs, docs, jobs, runs, call, queueState>>

(* ----------------------------- closeQueues ---------------------------- *)

\* calls of closeQueues that are made
CloseCalls == 2

\* a call of closeQueues is awaiting queue.close() of the k-th queue of the
\* map (k), or has left the loop and returned
ReturnedAt == Len(QueueOrder) + 1

\* queue.close() when the queue's state is st: a queue that is closing or
\* closed hands back the close that is under way or done
closeCallAgain(st) == "closing"

closeCall(st) == IF st = "open" THEN "closing" ELSE st

\* closeQueues() is called: the call runs up to its first await, the close of
\* the first queue of the map
closeQueues_begin ==
  /\ call.fn \in {"none", "closeQueues"}
  /\ call.fn = "closeQueues" => Len(call.out) < CloseCalls
  /\ call' = [NoCall EXCEPT !.fn = "closeQueues",
                            !.out = (IF call.fn = "none" THEN <<>> ELSE call.out) \o <<1>>]
  /\ queueState' = [queueState EXCEPT ![QueueOrder[1]] = closeCall(@)]
  /\ UNCHANGED <<fs, docs, jobs, runs, pythonUp, faults>>

\* call i: the awaited close has resolved; the loop goes on to the close of
\* the next queue, and after the last queue the call returns
closeQueues_resume(i) ==
  /\ call.fn = "closeQueues" /\ i \in DOMAIN call.out
  /\ call.out[i] < ReturnedAt
  /\ queueState[QueueOrder[call.out[i]]] = "closed"
  /\ call' = [call EXCEPT !.out[i] = @ + 1,
                          !.done = /\ call.out[i] + 1 = ReturnedAt
                                   /\ \A k \in DOMAIN call.out : k # i => call.out[k] = ReturnedAt]
  /\ queueState' = IF call.out[i] + 1 = ReturnedAt
                     THEN queueState
                     ELSE [queueState EXCEPT ![QueueOrder[call.out[i] + 1]] = closeCall(@)]
  /\ UNCHANGED <<fs, docs, jobs, runs, pythonUp, faults>>

\* a closing queue has waited for the handlers its workers are running and
\* has given up its connection
QueueCloses(kind) ==
  /\ queueState[kind] = "closing"
  /\ \A r \in runs : r.kind = kind => ~r.live
  /\ queueState' = [queueState EXCEPT ![kind] = "closed"]
  /\ UNCHANGED <<fs, docs, jobs, runs, pythonUp, faults, call>>

(* ---------------------------- getQueueStats --------------------------- *)

\* the lists getQueueStats reads of each queue, in the order it reads them
Categories == <<"waiting", "active", "completed", "failed">>

\* the reads of one call: four lists of each queue of the map
LastRead == Len(QueueOrder) * Len(Categories)

JobId(j) == <<j.doc, j.kind, j.n>>

\* queue.getWaiting(), getActive(), getCompleted(), getFailed(): the jobs of
\* the queue that are in the state when the list is read
getJobsIn(js, kind, category) == {j \in js : j.kind = kind /\ j.state = category}

\* getQueueStats() is called
getQueueStats_begin ==
  /\ call.fn = "none"
  /\ call' = [NoCall EXCEPT !.fn = "getQueueStats", !.at = 1,
                            !.out = [counted |-> {}, start |-> {JobId(j) : j \in jobs}]]
  /\ UNCHANGED <<fs, docs, jobs, runs, pythonUp, faults, queueState>>

\* the next awaited list is read: its jobs are the ones its length counts;
\* after the last list of the last queue the call returns the counts
getQueueStats_read ==
  /\ call.fn = "getQueueStats" /\ ~call.done
  /\ LET name     == QueueOrder[((call.at - 1) \div Len(Categories)) + 1]
         category == Categories[((call.at - 1) % Len(Categories)) + 1]
         list     == getJobsIn(jobs, name, category)
     IN  call' = [call EXCEPT !.at = @ + 1,
                              !.done = (call.at = LastRead),
                              !.out.counted = @ \cup {<<JobId(j), category>> : j \in list}]
  /\ UNCHANGED <<fs, docs, jobs, runs, pythonUp, faults, queueState>>

(* ------------------------------- Next ---------------------------------- *)

Next ==
  \/ \E d \in DOMAIN docs, ext \in Exts, size \in Sizes, text \in TextValues, exists \in BOOLEAN :
       Upload(d, ext, size, text, exists)
  \/ \E j \in jobs : StartJob(j)
  \/ \E j \in jobs : Promote(j)
  \/ \E r \in runs, ok \in BOOLEAN, helpersOk \in BOOLEAN :
       processDocumentJob_validate(r, ok, helpersOk)
  \/ \E r \in runs, ok \in BOOLEAN : processDocumentJob_move(r, ok)
  \/ \E r \in runs, ok \in BOOLEAN, pt \in ProcTimes : processDocumentJob_update(r, ok, pt)
  \/ \E r \in runs, ok \in BOOLEAN : processDocumentJob_enqueue(r, ok)
  \/ \E r \in runs, ok \in BOOLEAN : processDocumentJob_catch(r, ok)
  \/ \E r \in runs, ok \in BOOLEAN : processOCRJob_ocr(r, ok)
  \/ \E r \in runs, ok \in BOOLEAN, pt \in ProcTimes : processOCRJob_update(r, ok, pt)
  \/ \E r \in runs, ok \in BOOLEAN : processOCRJob_enqueue(r, ok)
  \/ \E r \in runs, ok \in BOOLEAN : processClassificationJob_classify(r, ok)
  \/ \E r \in runs, ok \in BOOLEAN, pt \in ProcTimes : processClassificationJob_update(r, ok, pt)
  \/ \E r \in runs, ok \in BOOLEAN : processClassificationJob_enqueue(r, ok)
  \/ \E r \in runs, ok \in BOOLEAN : processClassificationJob_progress100(r, ok)
  \/ \E r \in runs, ok \in BOOLEAN : processIndexingJob_index(r, ok)
  \/ \E r \in runs : Return(r)
  \/ \E r \in runs : Throw(r)
  \/ \E r \in runs : Timeout(r)
  \/ PythonServiceChange

Spec == Init /\ [][Next]_vars

\* the uploads made while a call of the service is under way: a file that
\* passes validation
ValidExts == {"pdf"}

ValidSizes == {10}

ValidTexts == {"invoice"}

\* the pipeline for uploads that pass validation, the external service
\* staying up
NextValidUploads ==
  \/ \E d \in DOMAIN docs, ext \in ValidExts, size \in ValidSizes, text \in ValidTexts :
       Upload(d, ext, size, text, TRUE)
  \/ \E j \in jobs : StartJob(j)
  \/ \E j \in jobs : Promote(j)
  \/ \E r \in runs, ok \in BOOLEAN, helpersOk \in BOOLEAN :
       processDocumentJob_validate(r, ok, helpersOk)
  \/ \E r \in runs, ok \in BOOLEAN : processDocumentJob_move(r, ok)
  \/ \E r \in runs, ok \in BOOLEAN, pt \in ProcTimes : processDocumentJob_update(r, ok, pt)
  \/ \E r \in runs, ok \in BOOLEAN : processDocumentJob_enqueue(r, ok)
  \/ \E r \in runs, ok \in BOOLEAN : processDocumentJob_catch(r, ok)
  \/ \E r \in runs, ok \in BOOLEAN : processOCRJob_ocr(r, ok)
  \/ \E r \in runs, ok \in BOOLEAN, pt \in ProcTimes : processOCRJob_update(r, ok, pt)
  \/ \E r \in runs, ok \in BOOLEAN : processOCRJob_enqueue(r, ok)
  \/ \E r \in runs, ok \in BOOLEAN : processClassificationJob_classify(r, ok)
  \/ \E r \in runs, ok \in BOOLEAN, pt \in ProcTimes : processClassificationJob_update(r, ok, pt)
  \/ \E r \in runs, ok \in BOOLEAN : processClassificationJob_enqueue(r, ok)
  \/ \E r \in runs, ok \in BOOLEAN : processClassificationJob_progress100(r, ok)
  \/ \E r \in runs, ok \in BOOLEAN : processIndexingJob_index(r, ok)
  \/ \E r \in runs : Return(r)
  \/ \E r \in runs : Throw(r)
  \/ \E r \in runs : Timeout(r)

\* the pipeline while closeQueues is called
NextShutdown ==
  \/ NextValidUploads
  \/ closeQueues_begin
  \/ \E i \in 1..CloseCalls : closeQueues_resume(i)
  \/ \E kind \in QueueNames : QueueCloses(kind)

SpecShutdown == Init /\ [][NextShutdown]_vars

\* DocumentModel.updateStatus is called directly: the stored row, the
\* status and the additional data are any of these
UpdatedRows ==
  {[NoRow EXCEPT !.status = "pending", !.file_path = "temp"],
   [status |-> "processing", ocr_text |-> "contract", ai_classification |-> "report",
    confidence_score |-> 60, processing_time |-> 7, file_path |-> "temp"]}

UpdateStatuses == {"processing", "completed", "failed"}

UpdateData ==
  [ai_classification : {Undef, "", "memo"}, confidence_score : {NoConf, 0, 90},
   processing_time : {NoTime, 0, 5}, ocr_text : {Undef, "", "invoice"}]

InitStore ==
  /\ fs = [d \in Docs |-> NoFile]
  /\ docs \in [Docs -> UpdatedRows]
  /\ jobs = {}
  /\ runs = {}
  /\ pythonUp = TRUE
  /\ faults = 0
  /\ queueState = AllOpen
  /\ \E status \in UpdateStatuses, data \in UpdateData :
       call = [NoCall EXCEPT !.fn = "updateStatus", !.text = status,
                             !.out = [data |-> data, before |-> docs]]

\* DocumentModel.updateStatus(id, status, additionalData) is called and returns
Call_updateStatus(d) ==
  /\ call.fn = "updateStatus" /\ ~call.done
  /\ docs' = [docs EXCEPT ![d] = updateStatus(@, call.text, call.out.data)]
  /\ call' = [call EXCEPT !.done = TRUE, !.at = d]
  /\ UNCHANGED <<fs, jobs, runs, pythonUp, faults, queueState>>

NextStore == \E d \in DOMAIN docs : Call_updateStatus(d)

SpecStore == InitStore /\ [][NextStore]_vars

\* the intake stage alone, for an upload that passes validation, with
\* IntakeFaults failures of awaited calls injected
IntakeFaults == 4

InitIntake ==
  /\ fs = [d \in Docs |-> NoFile]
  /\ docs = [d \in Docs |-> NoRow]
  /\ jobs = {}
  /\ runs = {}
  /\ pythonUp = TRUE
  /\ faults = IntakeFaults
  /\ call = NoCall
  /\ queueState = AllOpen

NextIntake ==
  \/ \E d \in DOMAIN docs, ext \in ValidExts, size \in ValidSizes, text \in ValidTexts :
       Upload(d, ext, size, text, TRUE)
  \/ \E d \in DOMAIN docs : \E j \in JobsOf(jobs, d, "document") : StartJob(j)
  \/ \E d \in DOMAIN docs : \E j \in JobsOf(jobs, d, "document") : Promote(j)
  \/ \E r \in runs, ok \in BOOLEAN, helpersOk \in BOOLEAN :
       processDocumentJob_validate(r, ok, helpersOk)
  \/ \E r \in runs, ok \in BOOLEAN : processDocumentJob_move(r, ok)
  \/ \E r \in runs, ok \in BOOLEAN, pt \in ProcTimes : processDocumentJob_update(r, ok, pt)
  \/ \E r \in runs, ok \in BOOLEAN : processDocumentJob_enqueue(r, ok)
  \/ \E r \in runs, ok \in BOOLEAN : processDocumentJob_catch(r, ok)
  \/ \E r \in runs : Return(r)
  \/ \E r \in runs : Throw(r)

SpecIntake == InitIntake /\ [][NextIntake]_vars

\* config.upload.supportedFormats that performOCR has no branch for
UnsupportedExts == {"doc", "docx", "xlsx", "dwg", "dxf"}

\* the formats uploaded under SpecFormats: an image and the unsupported ones
FormatExts == {"png"} \cup UnsupportedExts

\* the pipeline for uploads of these formats that pass validation
NextFormats ==
  \/ \E d \in DOMAIN docs, ext \in FormatExts, size \in ValidSizes, text \in ValidTexts :
       Upload(d, ext, size, text, TRUE)
  \/ \E j \in jobs : StartJob(j)
  \/ \E j \in jobs : Promote(j)
  \/ \E r \in runs, ok \in BOOLEAN, helpersOk \in BOOLEAN :
       processDocumentJob_validate(r, ok, helpersOk)
  \/ \E r \in runs, ok \in BOOLEAN : processDocumentJob_move(r, ok)
  \/ \E r \in runs, ok \in BOOLEAN, pt \in ProcTimes : processDocumentJob_update(r, ok, pt)
  \/ \E r \in runs, ok \in BOOLEAN : processDocumentJob_enqueue(r, ok)
  \/ \E r \in runs, ok \in BOOLEAN : processDocumentJob_catch(r, ok)
  \/ \E r \in runs, ok \in BOOLEAN : processOCRJob_ocr(r, ok)
  \/ \E r \in runs, ok \in BOOLEAN, pt \in ProcTimes : processOCRJob_update(r, ok, pt)
  \/ \E r \in runs, ok \in BOOLEAN : processOCRJob_enqueue(r, ok)
  \/ \E r \in runs, ok \in BOOLEAN : processClassificationJob_classify(r, ok)
  \/ \E r \in runs, ok \in BOOLEAN, pt \in ProcTimes : processClassificationJob_update(r, ok, pt)
  \/ \E r \in runs, ok \in BOOLEAN : processClassificationJob_enqueue(r, ok)
  \/ \E r \in runs, ok \in BOOLEAN : processClassificationJob_progress100(r, ok)
  \/ \E r \in runs, ok \in BOOLEAN : processIndexingJob_index(r, ok)
  \/ \E r \in runs : Return(r)
  \/ \E r \in runs : Throw(r)
  \/ \E r \in runs : Timeout(r)

SpecFormats == Init /\ [][NextFormats]_vars

\* the same under fair scheduling: a worker that can take a job, a timer
\* that has run out and a handler whose awaited call has settled go on, so
\* some step is taken as long as one is possible
SpecFormatsFair == SpecFormats /\ WF_vars(NextFormats)

\* a classification job is waiting: the OCR text of its payload and the
\* document's row (none, or one with or without a stored ocr_text) are any
\* of these
PayloadTexts == {Undef, "", "invoice"}

StoredRows ==
  {NoRow} \cup {[NoRow EXCEPT !.status = "processing", !.file_path = "temp", !.ocr_text = t] :
                  t \in {Undef, "", "contract"}}

InitClassification ==
  /\ fs = [d \in Docs |-> [loc |-> "final", size |-> 10, name |-> FileNameOf("png"),
                            ext |-> "png", text |-> ""]]
  /\ docs \in [Docs -> StoredRows]
  /\ \E t \in PayloadTexts :
       jobs = UNION {addClassificationJob({}, d, "final", t) : d \in Docs}
  /\ runs = {}
  /\ pythonUp \in BOOLEAN
  /\ faults = MaxFaults
  /\ call = NoCall
  /\ queueState = AllOpen

\* the classification stage and what follows it
NextClassification ==
  \/ \E j \in jobs : StartJob(j)
  \/ \E j \in jobs : Promote(j)
  \/ \E r \in runs, ok \in BOOLEAN : processClassificationJob_classify(r, ok)
  \/ \E r \in runs, ok \in BOOLEAN, pt \in ProcTimes : processClassificationJob_update(r, ok, pt)
  \/ \E r \in runs, ok \in BOOLEAN : processClassificationJob_enqueue(r, ok)
  \/ \E r \in runs, ok \in BOOLEAN : processClassificationJob_progress100(r, ok)
  \/ \E r \in runs, ok \in BOOLEAN : processIndexingJob_index(r, ok)
  \/ \E r \in runs : Return(r)
  \/ \E r \in runs : Throw(r)
  \/ \E r \in runs : Timeout(r)
  \/ PythonServiceChange

SpecClassification == InitClassification /\ [][NextClassification]_vars

\* two documents are uploaded and go through the pipeline side by side,
\* with PairFaults failures injected
PairDocs == {1, 2}

PairFaults == 1

InitPair ==
  /\ fs = [d \in PairDocs |-> NoFile]
  /\ docs = [d \in PairDocs |-> NoRow]
  /\ jobs = {}
  /\ runs = {}
  /\ pythonUp = TRUE
  /\ faults = PairFaults
  /\ call = NoCall
  /\ queueState = AllOpen

\* the pipeline for uploads that pass validation, metadata extraction and
\* thumbnail generation succeeding, the external service staying up and no
\* attempt timing out
NextPair ==
  \/ \E d \in DOMAIN docs, ext \in ValidExts, size \in ValidSizes, text \in ValidTexts :
       Upload(d, ext, size, text, TRUE)
  \/ \E j \in jobs : StartJob(j)
  \/ \E j \in jobs : Promote(j)
  \/ \E r \in runs, ok \in BOOLEAN : processDocumentJob_validate(r, ok, TRUE)
  \/ \E r \in runs, ok \in BOOLEAN : processDocumentJob_move(r, ok)
  \/ \E r \in runs, ok \in BOOLEAN, pt \in ProcTimes : processDocumentJob_update(r, ok, pt)
  \/ \E r \in runs, ok \in BOOLEAN : processDocumentJob_enqueue(r, ok)
  \/ \E r \in runs, ok \in BOOLEAN : processDocumentJob_catch(r, ok)
  \/ \E r \in runs, ok \in BOOLEAN : processOCRJob_ocr(r, ok)
  \/ \E r \in runs, ok \in BOOLEAN, pt \in ProcTimes : processOCRJob_update(r, ok, pt)
  \/ \E r \in runs, ok \in BOOLEAN : processOCRJob_enqueue(r, ok)
  \/ \E r \in runs, ok \in BOOLEAN : processClassificationJob_classify(r, ok)
  \/ \E r \in runs, ok \in BOOLEAN, pt \in ProcTimes : processClassificationJob_update(r, ok, pt)
  \/ \E r \in runs, ok \in BOOLEAN : processClassificationJob_enqueue(r, ok)
  \/ \E r \in runs, ok \in BOOLEAN : processClassificationJob_progress100(r, ok)
  \/ \E r \in runs, ok \in BOOLEAN : processIndexingJob_index(r, ok)
  \/ \E r \in runs : Return(r)
  \/ \E r \in runs : Throw(r)

SpecPair == InitPair /\ [][NextPair]_vars

\* getQueueStats is called while the pipeline works on an upload and none
\* of its calls fails
InitStats ==
  /\ fs = [d \in Docs |-> NoFile]
  /\ docs = [d \in Docs |-> NoRow]
  /\ jobs = {}
  /\ runs = {}
  /\ pythonUp = TRUE
  /\ faults = 0
  /\ call = NoCall
  /\ queueState = AllOpen

NextStats ==
  \/ \E d \in DOMAIN docs, ext \in ValidExts, size \in ValidSizes, text \in ValidTexts :
       Upload(d, ext, size, text, TRUE)
  \/ \E j \in jobs : StartJob(j)
  \/ \E r \in runs, helpersOk \in BOOLEAN : processDocumentJob_validate(r, TRUE, helpersOk)
  \/ \E r \in runs : processDocumentJob_move(r, TRUE)
  \/ \E r \in runs, pt \in ProcTimes : processDocumentJob_update(r, TRUE, pt)
  \/ \E r \in runs : processDocumentJob_enqueue(r, TRUE)
  \/ \E r \in runs : processOCRJob_ocr(r, TRUE)
  \/ \E r \in runs, pt \in ProcTimes : processOCRJob_update(r, TRUE, pt)
  \/ \E r \in runs : processOCRJob_enqueue(r, TRUE)
  \/ \E r \in runs : processClassificationJob_classify(r, TRUE)
  \/ \E r \in runs, pt \in ProcTimes : processClassificationJob_update(r, TRUE, pt)
  \/ \E r \in runs : processClassificationJob_enqueue(r, TRUE)
  \/ \E r \in runs : processClassificationJob_progress100(r, TRUE)
  \/ \E r \in runs : processIndexingJob_index(r, TRUE)
  \/ \E r \in runs : Return(r)
  \/ getQueueStats_begin
  \/ getQueueStats_read

SpecStats == InitStats /\ [][NextStats]_vars

\* closeQueues is called while the pipeline works on an upload and none of
\* its calls fails
NextOrderlyShutdown ==
  \/ \E d \in DOMAIN docs, ext \in ValidExts, size \in ValidSizes, text \in ValidTexts :
       Upload(d, ext, size, text, TRUE)
  \/ \E j \in jobs : StartJob(j)
  \/ \E r \in runs, helpersOk \in BOOLEAN : processDocumentJob_validate(r, TRUE, helpersOk)
  \/ \E r \in runs : processDocumentJob_move(r, TRUE)
  \/ \E r \in runs, pt \in ProcTimes : processDocumentJob_update(r, TRUE, pt)
  \/ \E r \in runs : processDocumentJob_enqueue(r, TRUE)
  \/ \E r \in runs : processOCRJob_ocr(r, TRUE)
  \/ \E r \in runs, pt \in ProcTimes : processOCRJob_update(r, TRUE, pt)
  \/ \E r \in runs : processOCRJob_enqueue(r, TRUE)
  \/ \E r \in runs : processClassificationJob_classify(r, TRUE)
  \/ \E r \in runs, pt \in ProcTimes : processClassificationJob_update(r, TRUE, pt)
  \/ \E r \in runs : processClassificationJob_enqueue(r, TRUE)
  \/ \E r \in runs : processClassificationJob_progress100(r, TRUE)
  \/ \E r \in runs : processIndexingJob_index(r, TRUE)
  \/ \E r \in runs : Return(r)
  \/ closeQueues_begin
  \/ \E i \in 1..CloseCalls : closeQueues_resume(i)
  \/ \E kind \in QueueNames : QueueCloses(kind)

SpecOrderlyShutdown == InitStats /\ [][NextOrderlyShutdown]_vars

(* --------------------------- direct calls ------------------------------ *)

\* tokens of the texts given to extractEntities
CallTokens ==
  {"PROJ-0042", "KM-2024-001", "03/04/2024", "2024-03-04", "4-3-2024", "$1,200.00",
   "USD 50", "₹75.5", " ", "ref "}

RECURSIVE TextsOf(_)
TextsOf(n) ==
  IF n = 0 THEN {""}
  ELSE LET shorter == TextsOf(n - 1)
       IN shorter \cup {t \o tok : t \in shorter, tok \in CallTokens}

ScenarioText == "Paid $1,200.00 on 03/04/2024, ref PROJ-0042"

ExtractTexts == TextsOf(MaxTokens) \cup {ScenarioText}

\* sizes, paths and OCR texts of the files given to validateFile and to
\* the fallback classifier
CallSizes == {0, 1, 10, maxFileSize - 1, maxFileSize, maxFileSize + 1}

CallPaths ==
  {"invoice_march.pdf", "scan.png", "INVOICE_0042.PNG", "reports/scan.png",
   "site_drawing.jpg", "plan.dwg", "layout.DXF", "contract.docx", "notes.doc",
   "ledger.xlsx", "report_q1.xlsx", "readme.txt", "archive", ".env", "bill.tiff"}

ClassifyTexts ==
  {"", "INVOICE no. 7", "Service Agreement", "electricity bill", "minutes of a meeting"}

\* queue contents, queue names and job ids given to getJobStatus
InspectedJobs ==
  {{}} \cup
  {{[doc |-> 1, kind |-> kind, n |-> 1, filePath |-> "final", ocrText |-> Undef,
     state |-> st.state, attemptsMade |-> st.attemptsMade, starts |-> st.starts,
     progress |-> st.progress, valErr |-> FALSE]} :
     kind \in QueueNames,
     st \in {[state |-> "waiting", attemptsMade |-> 0, starts |-> 0, progress |-> 0],
             [state |-> "active", attemptsMade |-> 0, starts |-> 1, progress |-> 10],
             [state |-> "active", attemptsMade |-> 1, starts |-> 2, progress |-> 80],
             [state |-> "completed", attemptsMade |-> 0, starts |-> 1, progress |-> 100],
             [state |-> "failed", attemptsMade |-> 2, starts |-> 2, progress |-> 10]}}

InspectedNames == QueueNames \cup {"upload", "thumbnail"}

InspectedIds == {1, 2}

CallFile(path, exists, size) ==
  IF exists
    THEN [loc |-> "temp", size |-> size, name |-> path,
          ext |-> toLowerCase(SubSeq(extname(path), 2, Len(extname(path)))), text |-> ""]
    ELSE [NoFile EXCEPT !.name = path]

\* a function of FileProcessor or AIService is about to be called on
\* arguments of the domains above; no pipeline is running
InitCalls ==
  /\ docs = [d \in Docs |-> NoRow]
  /\ runs = {}
  /\ pythonUp = FALSE
  /\ faults = 0
  /\ queueState = AllOpen
  /\ \/ \E path \in {"scan.png", "invoice_march.pdf"}, exists \in BOOLEAN, size \in CallSizes :
          /\ fs = [d \in Docs |-> CallFile(path, exists, size)]
          /\ jobs = {}
          /\ call = [NoCall EXCEPT !.fn = "validateFile"]
     \/ \E path \in CallPaths, text \in ClassifyTexts :
          /\ fs = [d \in Docs |-> CallFile(path, TRUE, 10)]
          /\ jobs = {}
          /\ call = [NoCall EXCEPT !.fn = "fallbackClassification", !.text = text]
     \/ \E text \in ExtractTexts :
          /\ fs = [d \in Docs |-> NoFile]
          /\ jobs = {}
          /\ call = [NoCall EXCEPT !.fn = "extractEntities", !.text = text]
     \/ \E js \in InspectedJobs, queueName \in InspectedNames, jobId \in InspectedIds :
          /\ fs = [d \in Docs |-> CallFile("scan.png", TRUE, 10)]
          /\ jobs = js
          /\ call = [NoCall EXCEPT !.fn = "getJobStatus", !.text = queueName, !.at = jobId]

\* FileProcessor.validateFile(filePath) is called and returns
Call_validateFile(d) ==
  /\ call.fn = "validateFile" /\ ~call.done
  /\ call' = [call EXCEPT !.done = TRUE, !.out = validateFile(d, "temp")]
  /\ UNCHANGED <<fs, docs, jobs, runs, pythonUp, faults, queueState>>

\* AIService.fallbackClassification(ocrText, filePath) is called and returns
Call_fallbackClassification(d) ==
  /\ call.fn = "fallbackClassification" /\ ~call.done
  /\ call' = [call EXCEPT !.done = TRUE, !.out = fallbackClassification(call.text, d)]
  /\ UNCHANGED <<fs, docs, jobs, runs, pythonUp, faults, queueState>>

\* AIService.extractEntities(ocrText) is called and returns
Call_extractEntities ==
  /\ call.fn = "extractEntities" /\ ~call.done
  /\ call' = [call EXCEPT !.done = TRUE, !.out = extractEntities(call.text)]
  /\ UNCHANGED <<fs, docs, jobs, runs, pythonUp, faults, queueState>>

\* getJobStatus(queueName, jobId) is called and returns or throws
Call_getJobStatus ==
  /\ call.fn = "getJobStatus" /\ ~call.done
  /\ call' = [call EXCEPT !.done = TRUE, !.out = getJobStatus(call.text, call.at)]
  /\ UNCHANGED <<fs, docs, jobs, runs, pythonUp, faults, queueState>>

NextCalls ==
  \/ \E d \in DOMAIN docs : Call_validateFile(d)
  \/ \E d \in DOMAIN docs : Call_fallbackClassification(d)
  \/ Call_extractEntities
  \/ Call_getJobStatus

SpecCalls == InitCalls /\ [][NextCalls]_vars

(* ------------------------ retention of jobs ---------------------------- *)

\* the queue's removal of finished jobs when a job of the kind finishes
\* with the outcome (completed or failed): of the jobs of the kind with
\* that outcome only the most recent removeOnComplete / removeOnFail stay
Retain(js, kind, outcome) ==
  LET keep == IF outcome = "completed" THEN removeOnComplete(kind) ELSE removeOnFail(kind)
      same == {j \in js : j.kind = kind /\ j.state = outcome}
  IN IF keep = KeepAll THEN js
     ELSE js \ {j \in same : Cardinality({k \in same : k.n > j.n}) >= keep}

\* no pipeline is running and no job is retained
InitRetention ==
  /\ fs = [d \in Docs |-> CallFile("scan.png", TRUE, 10)]
  /\ docs = [d \in Docs |-> [NoRow EXCEPT !.status = "completed", !.file_path = "temp"]]
  /\ jobs = {}
  /\ runs = {}
  /\ pythonUp = TRUE
  /\ faults = 0
  /\ call = NoCall
  /\ queueState = AllOpen

\* one more job of the kind is enqueued, processed and finishes with the
\* outcome; what happens to it in between is the subject of Spec.  The
\* jobs of one behaviour are all of one kind and finish the same way.
FinishJob(d, kind, outcome) ==
  /\ \A j \in jobs : j.kind = kind /\ j.state = outcome
  /\ LET n == IF jobs = {} THEN 1
              ELSE 1 + (CHOOSE m \in {j.n : j \in jobs} : \A j \in jobs : j.n <= m)
         job == [doc |-> d, kind |-> kind, n |-> n, filePath |-> "final", ocrText |-> Undef,
                 state |-> outcome,
                 attemptsMade |-> IF outcome = "failed" THEN MaxAttempts(kind) ELSE 0,
                 starts |-> IF outcome = "failed" THEN MaxAttempts(kind) ELSE 1,
                 progress |-> IF outcome = "failed" THEN 10 ELSE 100,
                 valErr |-> FALSE]
     IN /\ n <= MaxFinished
        /\ jobs' = Retain(jobs \cup {job}, kind, outcome)
  /\ UNCHANGED <<fs, docs, runs, pythonUp, faults, call, queueState>>

NextRetention ==
  \E d \in DOMAIN docs, kind \in QueueNames, outcome \in {"completed", "failed"} :
    FinishJob(d, kind, outcome)

SpecRetention == InitRetention /\ [][NextRetention]_vars

(* ---------------------------- worker pools ----------------------------- *)

\* the queue of one kind holds more waiting jobs than the kind's
\* concurrency; the documents they belong to play no part in what a worker takes
InitWorkers ==
  /\ fs = [d \in Docs |-> CallFile("scan.png", TRUE, 10)]
  /\ docs = [d \in Docs |-> [NoRow EXCEPT !.status = "pending", !.file_path = "temp"]]
  /\ \E kind \in QueueNames :
       jobs = {[doc |-> 1, kind |-> kind, n |-> n, filePath |-> "temp", ocrText |-> Undef,
                state |-> "waiting", attemptsMade |-> 0, starts |-> 0,
                progress |-> 0, valErr |-> FALSE] : n \in 1..(Concurrency(kind) + ExtraJobs)}
  /\ runs = {}
  /\ pythonUp = TRUE
  /\ faults = 0
  /\ call = NoCall
  /\ queueState = AllOpen

\* the workers of the queue take jobs; the handlers they invoke are still
\* awaiting their first call
NextWorkers == \E j \in jobs : StartJob(j)

SpecWorkers == InitWorkers /\ [][NextWorkers]_vars

\* the same program with a larger budget of injected failures
InitDeep ==
  /\ fs = [d \in Docs |-> NoFile]
  /\ docs = [d \in Docs |-> NoRow]
  /\ jobs = {}
  /\ runs = {}
  /\ pythonUp = TRUE
  /\ faults = DeepFaults
  /\ call = NoCall
  /\ queueState = AllOpen

SpecDeep == InitDeep /\ [][Next]_vars

TypeOK ==
  /\ faults \in 0..DeepFaults
  /\ \A d \in DOMAIN docs : docs[d].status \in {"none", "pending", "processing", "completed", "failed"}
  /\ \A j \in jobs : j.state \in {"waiting", "active", "delayed", "completed", "failed"}
  /\ \A kind \in QueueNames : queueState[kind] \in {"open", "closing", "closed"}

(* ------------------------- claims: helpers ----------------------------- *)

SameJob(j, j2) == j.doc = j2.doc /\ j.kind = j2.kind /\ j.n = j2.n

\* job j is taken by a worker in this step
Starts(j) == j.state = "waiting" /\ \E j2 \in jobs' : SameJob(j, j2) /\ j2.state = "active"

\* job j reaches its terminal failed state in this step
Exhausts(j) == j.state # "failed" /\ \E j2 \in jobs' : SameJob(j, j2) /\ j2.state = "failed"

LaterKinds(kind) ==
  CASE kind = "document"       -> {"ocr", "classification", "indexing"}
    [] kind = "ocr"            -> {"classification", "indexing"}
    [] kind = "classification" -> {"indexing"}
    [] kind = "indexing"       -> {}

\* an attempt of stage kind for document d has succeeded: its job is
\* completed, or its handler has done all its work and is about to return
StageSucceeded(d, kind) ==
  \/ \E j \in JobsOf(jobs, d, kind) : j.state = "completed"
  \/ \E r \in runs : r.doc = d /\ r.kind = kind /\ r.live /\ r.pc = "return"

(* ------------------------------ claims --------------------------------- *)

\* C1: a document's status changes only along pending -> processing ->
\* (completed | failed) (a failure of a pending document included): never
\* pending -> completed, never completed -> processing, never out of
\* completed or failed.
C1_StatusTransitions ==
  [][\A d \in DOMAIN docs :
       docs'[d].status # docs[d].status =>
         <<docs[d].status, docs'[d].status>> \in
           {<<"none", "pending">>, <<"pending", "processing">>, <<"pending", "failed">>,
            <<"processing", "completed">>, <<"processing", "failed">>}]_vars

\* C2: a document with status completed has had an indexing attempt executed.
C2_CompletedOnlyAfterIndexing ==
  \A d \in DOMAIN docs :
    docs[d].status = "completed" =>
      \E j \in JobsOf(jobs, d, "indexing") : j.starts > 0

\* C3: when a job of any kind fails on its last allowed attempt, the
\* document's status is failed afterwards.
C3_ExhaustedJobFailsDocument ==
  [][\A j \in jobs : Exhausts(j) => docs'[j.doc].status = "failed"]_vars

\* C4: once a job has exhausted its attempts for a document, no job of a
\* later stage is enqueued for that document.
C4_NoEnqueueAfterExhaustion ==
  [][\A j \in jobs :
       j.state = "failed" =>
         \A k \in LaterKinds(j.kind) :
           Cardinality(JobsOf(jobs', j.doc, k)) = Cardinality(JobsOf(jobs, j.doc, k))]_vars

C6_FailedOnlyOnExhaustion ==
  [][/\ \A d \in DOMAIN docs :
          (docs[d].status # "failed" /\ docs'[d].status = "failed") =>
            \E j \in jobs : j.doc = d /\ j.starts = MaxAttempts(j.kind)
     /\ \A j \in jobs : Starts(j) => docs[j.doc].status # "failed"]_vars

\* C7: no attempt of a stage starts for a document before an attempt of the
\* preceding stage for that document has succeeded.
C7_StageOrder ==
  [][\A j \in jobs :
       (j.kind # "document" /\ Starts(j)) => StageSucceeded(j.doc, PrevKind(j.kind))]_vars

\* C8: at no time are two jobs of different stages active for the same document.
C8_OneActiveStagePerDocument ==
  \A j1, j2 \in jobs :
    (j1.doc = j2.doc /\ j1.state = "active" /\ j2.state = "active") => j1.kind = j2.kind

\* C9: per document at most one OCR job, one classification job and one
\* indexing job are ever enqueued, and exactly one once the preceding stage
\* has a completed job.
C9_ExactlyOneSuccessor ==
  \A d \in DOMAIN docs : \A k \in {"ocr", "classification", "indexing"} :
    /\ Cardinality(JobsOf(jobs, d, k)) <= 1
    /\ (\E j \in JobsOf(jobs, d, PrevKind(k)) : j.state = "completed")
         => Cardinality(JobsOf(jobs, d, k)) = 1

\* C10: a job that hit a validation error (file missing, empty, too large,
\* type unsupported by OCR) is never started again, and when its attempt
\* ends the document's status is failed.
C10_ValidationErrorsTerminal ==
  [][\A j \in jobs :
       j.valErr =>
         /\ ~Starts(j)
         /\ (j.state = "active" /\ \E j2 \in jobs' : SameJob(j, j2) /\ j2.state # "active")
              => docs'[j.doc].status = "failed"]_vars

\* the handler invocation r has written the document's status (OCR and
\* classification handlers: the update precedes the enqueue)
HasWritten(r) ==
  r.kind \in {"ocr", "classification"} /\ r.pc \in {"enqueue", "progress100", "return"}

\* the handler invocation r has enqueued the job of the next stage
HasEnqueued(r) ==
  r.kind \in {"ocr", "classification"} /\ r.pc \in {"progress100", "return"}

\* r2 is a later attempt of the job whose attempt r1 was failed by its timeout
RetryOfTimedOut(r1, r2) ==
  /\ r1.doc = r2.doc /\ r1.kind = r2.kind /\ r1.n = r2.n
  /\ ~r1.live /\ r2.att > r1.att

\* C11: after an OCR or classification attempt was failed by its timeout
\* and the job retried, the handler of the timed-out attempt and the handler
\* of the retry never both write the document's status and never both
\* enqueue the next stage.
C11_NoZombieRace ==
  \A r1, r2 \in runs :
    RetryOfTimedOut(r1, r2) =>
      /\ ~(HasWritten(r1) /\ HasWritten(r2))
      /\ ~(HasEnqueued(r1) /\ HasEnqueued(r2))

\* the OCR handler invocation r of a PDF holds '' because the delegate
\* failed: the file has text the delegate would have returned
DelegateFailedFor(r) ==
  /\ r.kind = "ocr" /\ fs[r.doc].ext = "pdf"
  /\ fs[r.doc].text # "" /\ r.ocrText = ""

\* C12: when the external OCR delegate fails for a .pdf file, the OCR stage
\* does not fail (the handler goes on to its store update), the document's
\* ocr_text is the empty string after that update, and once the OCR job is
\* completed a classification job exists for the document.
C12_PdfDelegateFailureYieldsEmptyText ==
  [][\A r \in runs :
       /\ (r.kind = "ocr" /\ r.pc = "ocr" /\ fs[r.doc].ext = "pdf" /\ ~pythonUp
             /\ fs[r.doc].loc = JobOf(r).filePath /\ faults' = faults /\ r \notin runs')
            => [r EXCEPT !.pc = "update", !.ocrText = ""] \in runs'
       /\ (DelegateFailedFor(r) /\ r.pc = "update" /\ [r EXCEPT !.pc = "enqueue"] \in runs')
            => docs'[r.doc].ocr_text = ""
       /\ (DelegateFailedFor(r) /\ r.pc = "return" /\ r.live /\ r \notin runs')
            => JobsOf(jobs', r.doc, "classification") # {}]_vars

\* the document types and confidences (in percent) the rule-based fallback produces
FallbackTypes ==
  {"report", "invoice", "contract", "technical_drawing", "image", "document",
   "spreadsheet", "unknown"}
FallbackConfidences == {50, 60, 70, 80}

\* C13 (as stated): the only way a classification attempt fails is the
\* fallback throwing; the fallback has no throwing path, so no attempt of
\* a classification job is ever counted as failed.
C13_OnlyFallbackFailsClassification ==
  [][\A j \in jobs : \A j2 \in jobs' :
       (j.kind = "classification" /\ SameJob(j, j2)) => j2.attemptsMade = j.attemptsMade]_vars

\* C13 (amended): a classification handler that calls classifyDocument
\* while the external service is down does not throw on that account: it
\* goes on to its store update holding a result of the rule-based fallback.
C13_ServiceFailureFallsBack ==
  [][\A r \in runs :
       (r.kind = "classification" /\ r.pc = "classify" /\ ~pythonUp
          /\ faults' = faults /\ r \notin runs')
         => \E r2 \in runs' :
              /\ r2 = [r EXCEPT !.pc = "update", !.ocrText = r2.ocrText, !.res = r2.res]
              /\ r2.res.document_type \in FallbackTypes
              /\ r2.res.confidence \in FallbackConfidences]_vars

\* C13 witness: a classification handler holds a fallback result while the
\* external service is down.
C13_Witness_FallbackUsed ==
  \E r \in runs :
    /\ r.kind = "classification" /\ r.pc = "update" /\ ~pythonUp
    /\ r.res.document_type \in FallbackTypes

\* the function fn was called directly and has returned
Returned(fn) == call.fn = fn /\ call.done

\* C14: with the classification delegate unreachable, the fallback
\* classifies a file named invoice_march.pdf with empty OCR text as
\* invoice with confidence 0.7.
C14_InvoicePdfIsInvoice ==
  \A d \in DOMAIN fs :
    (Returned("fallbackClassification") /\ basename(fs[d].name) = "invoice_march.pdf"
       /\ call.text = "")
      => call.out = [document_type |-> "invoice", confidence |-> 70]

\* the confidence (in percent) the fallback attaches to each document type
ConfidenceOf(documentType) ==
  CASE documentType = "report"            -> 60
    [] documentType = "invoice"           -> 70
    [] documentType = "contract"          -> 70
    [] documentType = "technical_drawing" -> 80
    [] documentType = "image"             -> 60
    [] documentType = "document"          -> 60
    [] documentType = "spreadsheet"       -> 70
    [] documentType = "unknown"           -> 50
    [] OTHER                              -> NoConf

C16_ScenarioOneOfEach ==
  (Returned("extractEntities") /\ call.text = ScenarioText) =>
    /\ call.out.dates = <<"03/04/2024">>
    /\ call.out.amounts = <<"$1,200.00">>
    /\ call.out.project_codes = <<"PROJ-0042">>

\* C16 (amended): on the scenario text extractEntities returns the date
\* 03/04/2024 once, the amount $1,200.00 once, and the project code
\* PROJ-0042 twice (two project-code patterns match it).
C16_ScenarioProjectCodeTwice ==
  (Returned("extractEntities") /\ call.text = ScenarioText) =>
    /\ call.out.dates = <<"03/04/2024">>
    /\ call.out.amounts = <<"$1,200.00">>
    /\ call.out.project_codes = <<"PROJ-0042", "PROJ-0042">>

\* C16 witness: extractEntities has returned from a call on the scenario text.
C16_Witness_ScenarioExtracted ==
  Returned("extractEntities") /\ call.text = ScenarioText

\* how often m occurs in the list
Occurrences(m, list) == Cardinality({i \in 1..Len(list) : list[i] = m})

\* how many of the patterns match m somewhere in the text
MatchedBy(m, patterns, text) ==
  Cardinality({k \in 1..Len(patterns) : Occurrences(m, MatchAll(patterns[k], text, 1)) > 0})

\* the list is what the patterns match in the text, pattern after pattern,
\* and a string matched once each by k of the patterns occurs k times in it
ConcatenatedInOrder(list, patterns, text) ==
  /\ \E cut \in [0..Len(patterns) -> 0..Len(list)] :
       /\ cut[0] = 0 /\ cut[Len(patterns)] = Len(list)
       /\ \A k \in 1..Len(patterns) :
            /\ cut[k - 1] <= cut[k]
            /\ SubSeq(list, cut[k - 1] + 1, cut[k]) = MatchAll(patterns[k], text, 1)
  /\ \A i \in 1..Len(list) :
       (\A k \in 1..Len(patterns) : Occurrences(list[i], MatchAll(patterns[k], text, 1)) <= 1)
         => Occurrences(list[i], list) = MatchedBy(list[i], patterns, text)

\* C17: each output list of extractEntities is the concatenation, in
\* pattern order, of what the patterns of its category match, duplicates
\* kept: a substring matched by k patterns occurs k times.
C17_ConcatenationKeepsDuplicates ==
  Returned("extractEntities") =>
    /\ ConcatenatedInOrder(call.out.dates, datePatterns, call.text)
    /\ ConcatenatedInOrder(call.out.amounts, amountPatterns, call.text)
    /\ ConcatenatedInOrder(call.out.project_codes, projectCodePatterns, call.text)

\* C17 witness: a project code matched by two patterns occurs twice in
\* the output, after a match of an earlier pattern.
C17_Witness_DuplicateKept ==
  /\ Returned("extractEntities")
  /\ call.out.project_codes = <<"KM-2024", "KM-2024-001", "KM-2024-001">>

\* C19: validateFile returns valid exactly when the path exists and its
\* size is above zero and at most the maximum; it reports a missing path,
\* a size above the maximum and size zero each with its own error; and the
\* call changes neither the file system nor the rows, jobs and handlers of
\* the pipeline.
C19_ValidateFileContract ==
  /\ [](\A d \in DOMAIN fs :
          Returned("validateFile") =>
            LET exists == fs[d].loc = "temp"
                size == fs[d].size
            IN /\ call.out.valid <=> (exists /\ size > 0 /\ size <= 20971520)
               /\ ~exists => call.out.error = "File does not exist"
               /\ (exists /\ size > 20971520) => call.out.error = "File size exceeds maximum"
               /\ (exists /\ size = 0) => call.out.error = "File is empty")
  /\ [][(call.fn = "validateFile" /\ call' # call)
          => UNCHANGED <<fs, docs, jobs, runs>>]_vars

\* C19 witness: validateFile has accepted a file of exactly the maximum size.
C19_Witness_MaxSizeAccepted ==
  \E d \in DOMAIN fs :
    /\ Returned("validateFile") /\ call.out.valid
    /\ fs[d].loc = "temp" /\ fs[d].size = 20971520

\* validateFile has returned from a call on an existing .png file of 10 bytes
TenBytePng(d) ==
  /\ Returned("validateFile")
  /\ fs[d].loc = "temp" /\ fs[d].size = 10 /\ fs[d].ext = "png"

\* C20 (as stated): a .png file of 10 bytes fails validation with the
\* Empty error.
C20_TenBytePngIsEmpty ==
  \A d \in DOMAIN fs :
    TenBytePng(d) => (~call.out.valid /\ call.out.error = "File is empty")

\* C20 (amended): a .png file of 10 bytes passes validation; the Empty
\* error is for a file of 0 bytes.
C20_TenBytePngIsValid ==
  \A d \in DOMAIN fs :
    /\ TenBytePng(d) => (call.out.valid /\ call.out.error = "none")
    /\ (Returned("validateFile") /\ fs[d].loc = "temp" /\ fs[d].ext = "png" /\ fs[d].size = 0)
         => (~call.out.valid /\ call.out.error = "File is empty")

\* C20 witness: validateFile has returned valid for a .png file of 10 bytes.
C20_Witness_TenBytePngChecked ==
  \E d \in DOMAIN fs : TenBytePng(d) /\ call.out.valid

\* C21: once the intake job of a document is completed, the document's
\* file_path in the store is the permanent path the file was relocated to.
C21_FilePathRelocated ==
  \A d \in DOMAIN docs :
    (\E j \in JobsOf(jobs, d, "document") : j.state = "completed")
      => docs[d].file_path = "final"

\* C26: the progress reported on a job never decreases, retries of the job
\* included, and lies in 0..100.
C26_ProgressMonotonic ==
  [][\A j \in jobs : \A j2 \in jobs' :
       SameJob(j, j2) => (j2.progress >= j.progress /\ j2.progress \in 0..100)]_vars

ValidIntake(r) ==
  /\ r.kind = "document" /\ r.pc = "validate"
  /\ validateFile(r.doc, JobOf(r).filePath).valid

\* C30 (as stated): a failure of metadata extraction or thumbnail
\* generation never fails an intake attempt, and only a validation,
\* relocation, store update or enqueue failure does: an attempt whose file
\* passes validation does not fail before the relocation.
C30_OnlyPrimaryFailuresFailIntake ==
  [][\A r \in runs : ValidIntake(r) => [r EXCEPT !.pc = "catch"] \notin runs']_vars

\* C30 (amended): a failure of metadata extraction or thumbnail generation
\* never fails an intake attempt (with a valid file and no other failure
\* the handler goes on to the relocation, whatever the helpers did), and an
\* intake attempt enters its catch block only on a validation failure, a
\* relocation failure, or a throwing awaited call (job.progress, the store
\* update, the enqueue).
C30_HelperFailuresSwallowed ==
  [][\A r \in runs :
       /\ (ValidIntake(r) /\ faults' = faults /\ r \notin runs')
            => \E h \in BOOLEAN : [r EXCEPT !.pc = "move", !.helpers = h] \in runs'
       /\ (r.kind = "document" /\ r.pc # "catch" /\ [r EXCEPT !.pc = "catch"] \in runs')
            => \/ faults' < faults
               \/ r.pc = "validate" /\ ~validateFile(r.doc, JobOf(r).filePath).valid
               \/ r.pc = "move" /\ fs[r.doc].loc # JobOf(r).filePath]_vars

\* C30 witness: an intake attempt whose helpers failed has relocated the
\* file, updated the document and enqueued the OCR job.
C30_Witness_DegradedIntakeDone ==
  \E r \in runs :
    /\ r.kind = "document" /\ ~r.helpers /\ r.pc = "return"
    /\ fs[r.doc].loc = "final" /\ docs[r.doc].status = "completed"
    /\ JobsOf(jobs, r.doc, "ocr") # {}

\* the queue a job kind of the pipeline is kept in: upload is the intake kind
QueueOfKind(kind) == IF kind = "upload" THEN "document" ELSE kind

\* C22: getJobStatus(kind, id) returns the job's progress, payload,
\* timestamps and failure reason when kind is one of upload, ocr,
\* classification, indexing and id names a retained job of that kind; it
\* fails with a not-found error when the kind is none of the pipeline's or
\* the id names no job of the kind; the jobs are left unchanged.
C22_GetJobStatusContract ==
  /\ [](Returned("getJobStatus") =>
          LET known == call.text \in {"upload", "ocr", "classification", "indexing"}
              found == {j \in jobs : j.kind = QueueOfKind(call.text) /\ j.n = call.at}
          IN /\ (known /\ found # {}) =>
                  /\ call.out.ok
                  /\ \E j \in found :
                       /\ call.out.progress = j.progress
                       /\ call.out.data.documentId = j.doc
                       /\ call.out.data.filePath = j.filePath
                       /\ call.out.failedReason = (j.attemptsMade > 0)
             /\ (call.text \notin {"upload", "document", "ocr", "classification", "indexing"}
                   \/ (known /\ found = {})) => ~call.out.ok)
  /\ [][(call.fn = "getJobStatus" /\ call' # call) => UNCHANGED <<jobs, runs, docs>>]_vars

\* C28: for every job kind the number of finished jobs the queue retains
\* stays within a fixed count, the 100 completed and 50 failed jobs the
\* intake queue keeps, however many jobs finish.
C28_RetentionBounded ==
  \A kind \in QueueNames :
    /\ Cardinality({j \in jobs : j.kind = kind /\ j.state = "completed"}) <= 100
    /\ Cardinality({j \in jobs : j.kind = kind /\ j.state = "failed"}) <= 50

\* C29: the number of active jobs of a kind never exceeds the kind's
\* concurrency: 10 for intake, 5 for OCR, 5 for classification, 10 for indexing.
C29_ConcurrencyLimit ==
  /\ ActiveCount("document") <= 10
  /\ ActiveCount("ocr") <= 5
  /\ ActiveCount("classification") <= 5
  /\ ActiveCount("indexing") <= 10

\* C29 witness: five OCR jobs are active and another OCR job is waiting.
C29_Witness_OcrPoolFull ==
  /\ ActiveCount("ocr") = 5
  /\ \E j \in jobs : j.kind = "ocr" /\ j.state = "waiting"

\* a call of closeQueues has returned
CloseReturned == call.fn = "closeQueues" /\ \E i \in DOMAIN call.out : call.out[i] = ReturnedAt

C24_NoJobStartsAfterClose ==
  [][CloseReturned =>
       \A j \in jobs, j2 \in jobs' :
         (j2.state = "active" \/ (j.state = "delayed" /\ j2.state = "waiting"))
           => ~(SameJob(j, j2) /\ j.state # j2.state)]_vars

\* C24 witness: closeQueues has returned while a job waits in its queue and a
\* handler whose attempt timed out is still running.
C24_Witness_ClosedWithWaitingJob ==
  /\ CloseReturned
  /\ \E j \in jobs : j.state = "waiting"
  /\ \E r \in runs : ~r.live /\ r.pc \notin {"return", "throw"}

\* the lists in whose counts the call of getQueueStats has counted a job
CountedIn(id) == {c \in DOMAIN Categories : <<id, Categories[c]>> \in call.out.counted}

\* C25: getQueueStats returns a snapshot: a job is counted in at most one of
\* the waiting, active, completed and failed counts, and when the call
\* returns every job that existed when it was made is counted exactly once.
C25_StatsSnapshot ==
  call.fn = "getQueueStats" =>
    /\ \A j \in jobs : Cardinality(CountedIn(JobId(j))) <= 1
    /\ call.done => \A id \in call.out.start : Cardinality(CountedIn(id)) = 1

\* the updateStatus call of a handler of stage kind for document d succeeds in
\* this step
StoreUpdateBy(d, kind) ==
  \E r \in runs : /\ r.doc = d /\ r.kind = kind /\ r.pc = "update"
                  /\ [r EXCEPT !.pc = "enqueue"] \in runs'

\* this step writes ocr_text of document d: the OCR stage's update, with a
\* text that is not empty
WritesOcrText(d) ==
  \E r \in runs : /\ r.doc = d /\ r.kind = "ocr" /\ r.pc = "update"
                  /\ r.ocrText \notin {Undef, ""}
                  /\ [r EXCEPT !.pc = "enqueue"] \in runs'

\* C31: ocr_text is written only by the OCR stage and ai_classification and
\* confidence_score only by the classification stage, and within one pass
\* each of them is written at most once: a step that writes one of them
\* finds it not yet written.
C31_FieldsWrittenOnce ==
  [][\A d \in DOMAIN docs :
       /\ docs'[d].ocr_text # docs[d].ocr_text => WritesOcrText(d)
       /\ (docs'[d].ai_classification # docs[d].ai_classification
             \/ docs'[d].confidence_score # docs[d].confidence_score)
            => StoreUpdateBy(d, "classification")
       /\ WritesOcrText(d) => docs[d].ocr_text = Undef
       /\ StoreUpdateBy(d, "classification") => docs[d].confidence_score = NoConf]_vars

\* a handler working for document d takes a step
StepFor(d) == \E r \in runs : r.doc = d /\ r \notin runs'

\* C32: a step of a stage attempt for document d, whether it succeeds or
\* fails, leaves the row, the file and the jobs of every other document as
\* they are: it writes only d's row and enqueues only for d.
C32_DocumentsIndependent ==
  [][\A d \in DOMAIN docs :
       StepFor(d) =>
         \A e \in DOMAIN docs \ {d} :
           /\ docs'[e] = docs[e]
           /\ fs'[e] = fs[e]
           /\ {j \in jobs' : j.doc = e} = {j \in jobs : j.doc = e}]_vars

\* C32 witness: one document has been classified and indexed while the
\* intake of the other one has failed.
C32_Witness_OneDoneOneFailed ==
  \E d \in DOMAIN docs, e \in DOMAIN docs :
    /\ d # e
    /\ docs[d].ai_classification # Undef
    /\ \E j \in JobsOf(jobs, d, "indexing") : j.state = "completed"
    /\ docs[e].status = "failed"
    /\ JobsOf(jobs, e, "ocr") = {}

\* the text the claim has the classification stage classify for run r
TextToClassify(r) ==
  LET payload == JobOf(r).ocrText
      stored  == docs[r.doc].ocr_text
  IN IF payload \notin {Undef, ""} THEN payload
     ELSE IF docs[r.doc].status # "none" /\ stored \notin {Undef, ""} THEN stored
     ELSE ""

\* C33: the classification stage classifies the OCR text of its job's
\* payload when there is one that is not empty, else the ocr_text stored
\* for the document, else (no stored text, or no row) the empty string;
\* unless one of its calls throws it does not fail.
C33_ClassifiesPayloadThenStoredText ==
  [][\A r \in runs :
       (r.kind = "classification" /\ r.pc = "classify" /\ r \notin runs')
         => \/ faults' < faults
            \/ \E r2 \in runs' :
                 /\ r2 = [r EXCEPT !.pc = "update", !.ocrText = TextToClassify(r),
                                   !.res = classifyDocument(TextToClassify(r), r.doc)]]_vars

\* C33 witness: a job without a payload text has had the stored text
\* classified.
C33_Witness_StoredTextClassified ==
  \E r \in runs :
    /\ r.kind = "classification" /\ r.pc = "update"
    /\ JobOf(r).ocrText \in {Undef, ""}
    /\ r.ocrText = "contract"

\* C34: a document whose file is of a format performOCR does not support
\* (doc, docx, xlsx, dwg, dxf) never gets past OCR: no OCR attempt for it
\* gets beyond performOCR, and no classification or indexing job is ever
\* enqueued for it.
C34_UnsupportedNeverClassified ==
  \A d \in DOMAIN docs :
    fs[d].ext \in UnsupportedExts =>
      /\ JobsOf(jobs, d, "classification") = {}
      /\ JobsOf(jobs, d, "indexing") = {}
      /\ \A r \in runs : (r.doc = d /\ r.kind = "ocr") => r.pc \in {"ocr", "throw"}
      /\ \A j \in JobsOf(jobs, d, "ocr") : j.state # "completed"

\* C34 witness: the OCR job of an uploaded dwg file has failed for good after
\* its intake completed.
C34_Witness_DwgOcrFailed ==
  \E d \in DOMAIN docs :
    /\ fs[d].ext = "dwg"
    /\ \E j \in JobsOf(jobs, d, "document") : j.state = "completed"
    /\ \E j \in JobsOf(jobs, d, "ocr") : j.state = "failed" /\ j.valErr

\* an intake attempt for document d has failed after it relocated the file:
\* the file is at its final path, the intake job is not completed, and no
\* handler of it is between relocation and return
FailedAfterRelocation(d) ==
  /\ fs[d].loc = "final"
  /\ \E j \in JobsOf(jobs, d, "document") : j.state # "completed"
  /\ \A r \in runs : (r.doc = d /\ r.kind = "document")
                        => r.pc \notin {"update", "enqueue", "return"}

\* C35: when an intake attempt has failed after relocating the file and the
\* intake job has then reached its terminal state, the job has failed after
\* 3 attempts, the document's status is failed and it has no OCR job.
C35_RelocatedFailureEndsFailed ==
  \A d \in DOMAIN docs :
    FailedAfterRelocation(d) =>
      \A j \in JobsOf(jobs, d, "document") :
        j.state = "failed" =>
          /\ j.attemptsMade = 3
          /\ docs[d].status = "failed"
          /\ JobsOf(jobs, d, "ocr") = {}

\* C35, amended: after an intake attempt has failed after relocating the
\* file, no later attempt gets past validation, the job is never completed
\* and fails for good after 3 attempts, no OCR job is enqueued, and the
\* status is failed from the first catch block whose status update
\* succeeds.
C35_RelocatedFailureNeverRecovers ==
  /\ [](\A d \in DOMAIN docs :
          FailedAfterRelocation(d) =>
            /\ JobsOf(jobs, d, "ocr") = {}
            /\ \A r \in runs : (r.doc = d /\ r.kind = "document")
                                  => r.pc \in {"validate", "catch", "throw"}
            /\ \A j \in JobsOf(jobs, d, "document") :
                 j.state = "failed" => j.attemptsMade = 3)
  /\ [][\A d \in DOMAIN docs :
          FailedAfterRelocation(d) =>
            /\ FailedAfterRelocation(d)'
            /\ docs[d].status = "failed" => docs'[d].status = "failed"
            /\ (\E r \in runs : r.doc = d /\ r.pc = "catch" /\ r \notin runs')
                 => (faults' < faults \/ docs'[d].status = "failed")]_vars

\* C35 witness: the file was relocated, the store update failed, and the
\* intake job has failed for good after two more attempts that failed
\* validation; the document is failed and has no OCR job.
C35_Witness_ExhaustedAfterRelocation ==
  \E d \in DOMAIN docs :
    /\ FailedAfterRelocation(d)
    /\ \E j \in JobsOf(jobs, d, "document") :
         j.state = "failed" /\ j.attemptsMade = 3 /\ j.valErr
    /\ docs[d].status = "failed"
    /\ JobsOf(jobs, d, "ocr") = {}

\* the pass of document d has come to rest: none of its jobs is waiting,
\* delayed or active, and its indexing job is completed or one of its jobs
\* has failed for good
PassEnded(d) ==
  /\ \A j \in jobs : j.doc = d => j.state \in {"completed", "failed"}
  /\ \/ \E j \in JobsOf(jobs, d, "indexing") : j.state = "completed"
     \/ \E j \in jobs : j.doc = d /\ j.state = "failed"

\* C36: every pass terminates: under fair scheduling, once the intake job of
\* a document is enqueued the jobs of the document eventually are all
\* finished, with a completed indexing job or with a job failed for good.
C36_PassTerminates ==
  \A d \in Docs : (JobsOf(jobs, d, "document") # {}) ~> PassEnded(d)

\* C36 witness: a pass has ended with its indexing job completed after an
\* attempt of an earlier stage had failed and was retried.
C36_Witness_EndedAfterRetry ==
  \E d \in DOMAIN docs :
    /\ PassEnded(d)
    /\ \E j \in JobsOf(jobs, d, "indexing") : j.state = "completed"
    /\ \E j \in jobs : j.doc = d /\ j.attemptsMade > 0

\* C37: the indexing stage never writes to the Document Status Store: a
\* step of an indexing attempt, successful or failed, leaves every row as
\* it is.
C37_IndexingWritesNothing ==
  [][(\E r \in runs : r.kind = "indexing" /\ r \notin runs') => docs' = docs]_vars

\* C37 witness: an indexing job is completed after one of its attempts had
\* failed.
C37_Witness_IndexedAfterFailedAttempt ==
  \E j \in jobs : j.kind = "indexing" /\ j.state = "completed" /\ j.attemptsMade > 0

\* C38: updateStatus sets the status and, of the other fields, exactly the
\* ones supplied with a usable value: a field that is not supplied keeps its
\* stored value, an empty ocr_text or ai_classification counts as not
\* supplied, a confidence_score or processing_time of 0 is written, and
\* file_path is never touched.
C38_UpdateStatusWritesSuppliedFields ==
  (call.fn = "updateStatus" /\ call.done) =>
    LET before == call.out.before[call.at]
        after  == docs[call.at]
        data   == call.out.data
    IN /\ after.status = call.text
       /\ after.file_path = before.file_path
       /\ after.ocr_text = IF data.ocr_text \in {Undef, ""} THEN before.ocr_text
                                                             ELSE data.ocr_text
       /\ after.ai_classification =
            IF data.ai_classification \in {Undef, ""} THEN before.ai_classification
                                                       ELSE data.ai_classification
       /\ after.confidence_score =
            IF data.confidence_score = NoConf THEN before.confidence_score
                                              ELSE data.confidence_score
       /\ after.processing_time =
            IF data.processing_time = NoTime THEN before.processing_time
                                             ELSE data.processing_time
       /\ \A d \in DOMAIN docs \ {call.at} : docs[d] = call.out.before[d]

\* C38 witness: an update with an empty ocr_text and a confidence_score of 0
\* has kept the stored text and has written the 0 over the stored 60.
C38_Witness_EmptyTextKeptZeroWritten ==
  /\ call.fn = "updateStatus" /\ call.done
  /\ call.out.data.ocr_text = "" /\ call.out.data.confidence_score = 0
  /\ call.out.before[call.at].ocr_text = "contract"
  /\ call.out.before[call.at].confidence_score = 60
  /\ docs[call.at].ocr_text = "contract"
  /\ docs[call.at].confidence_score = 0

\* job j is enqueued in this step
Enqueued(j) == j \in jobs' /\ \A j0 \in jobs : ~SameJob(j0, j)

\* C39: every OCR job is enqueued by an intake attempt of the same
\* document with the path the file was relocated to, never the staging
\* path, and every classification and indexing job is enqueued by the
\* stage before it with the documentId and the path of that stage's job.
C39_SuccessorsCarryFinalPath ==
  /\ [](\A j \in jobs : j.kind # "document" => j.filePath = "final")
  /\ [][\A j \in jobs' :
          (Enqueued(j) /\ j.kind # "document") =>
            \E r \in runs :
              /\ r \notin runs'
              /\ r.doc = j.doc /\ r.kind = PrevKind(j.kind)
              /\ fs[j.doc].loc = j.filePath
              /\ j.kind # "ocr" => j.filePath = JobOf(r).filePath]_vars

\* C39 witness: both documents have an indexing job, and the jobs of each
\* after intake carry its final path.
C39_Witness_BothChainsEnqueued ==
  \A d \in DOMAIN docs :
    /\ JobsOf(jobs, d, "indexing") # {}
    /\ \A j \in jobs : (j.doc = d /\ j.kind # "document") => j.filePath = "final"
    /\ \E j \in JobsOf(jobs, d, "document") : j.filePath = "temp"

\* the stage a stage enqueues its successor for
NextKind(kind) ==
  CASE kind = "document"       -> "ocr"
    [] kind = "ocr"            -> "classification"
    [] kind = "classification" -> "indexing"

\* C40: closeQueues closes the queues in pipeline order, each close
\* completing before the next begins: a queue is open until the queue of
\* the stage before it is closed.  So a handler whose attempt is still
\* active during shutdown finds the queue of the next stage open, and its
\* enqueue of the successor job goes through unless the call itself fails.
C40_ClosedInPipelineOrder ==
  /\ [](/\ \A k \in 1..(Len(QueueOrder) - 1) :
            queueState[QueueOrder[k + 1]] # "open" => queueState[QueueOrder[k]] = "closed"
        /\ \A r \in runs :
            (r.live /\ r.kind # "indexing") => queueState[NextKind(r.kind)] = "open")
  /\ [][\A r \in runs :
          (r.live /\ r.pc = "enqueue" /\ r \notin runs' /\ faults' = faults)
            => \E j \in jobs' : /\ Enqueued(j)
                                 /\ j.doc = r.doc /\ j.kind = NextKind(r.kind)]_vars

\* C40 witness: the OCR queue is closing and waits for an OCR handler
\* that is about to enqueue the classification job, the intake queue
\* being closed already.
C40_Witness_EnqueueWhileClosing ==
  /\ queueState["document"] = "closed"
  /\ queueState["ocr"] = "closing"
  /\ queueState["classification"] = "open"
  /\ \E r \in runs : r.kind = "ocr" /\ r.live /\ r.pc = "enqueue"

====
